---- MODULE Spec2Model ----
(***************************************************************************)
(* Model of process_embeddings.py (EmbeddingProcessor): one run of the     *)
(* embedding pipeline fetch -> validate -> dispatch (single-call or batch, *)
(* each provider call wrapped in retry with exponential backoff) ->        *)
(* persist -> report.                                                      *)
(*                                                                         *)
(* Strings are run-length encoded: a string is a sequence of tokens        *)
(* <<c, n>>, the text c repeated n >= 1 times.  Input strings use          *)
(* one-character tokens; the literals the code emits ("Title: ", " | ")    *)
(* are single tokens.  Python's None is the value None below.              *)
(***************************************************************************)
EXTENDS Integers, Sequences, FiniteSets, TLC

\* ------------------------------------------------------------------------
\* Program constants (src/process_embeddings.py, "CONFIGURAZIONE GLOBALE")
\* ------------------------------------------------------------------------
BATCH_LIMIT == 50
MAX_RETRIES == 3
MAX_TEXT_LENGTH == 8000
EXPECTED_VECTOR_DIMENSION == 1536

\* The provider's batch capacity.  The program sets 10; the model runs the
\* same code with a smaller capacity so that runs of a few notes span
\* several chunks.
GEMINI_BATCH_SIZE == 2

\* ------------------------------------------------------------------------
\* Bounds of the model
\* ------------------------------------------------------------------------
\* rows of the notes table
MaxNotes == 3
\* provider calls that raise, over one run
MaxFailures == 3
\* provider calls that return an unexpected shape (a short list, another
\* dimension), store updates that confirm no write and count queries that
\* raise, over one run
MaxAnomalies == 1
\* the runs of the program in a row, in the specification with re-runs
MaxRuns == 2
\* the note ids of the lists _process_notes_batch is applied to on its own
MaxIds == 2
\* the tags of a note's list of tags, where the assembler is applied on its own
MaxTags == 2
\* the pending rows of the table beyond BATCH_LIMIT, in the runs over a backlog
MaxBacklog == 1

\* ------------------------------------------------------------------------
\* Strings
\* ------------------------------------------------------------------------
None == <<<<"None", 0>>>>

\* a literal of the program text
Lit(c) == <<<<c, 1>>>>

\* c repeated n times
Rep(c, n) == IF n = 0 THEN <<>> ELSE <<<<c, n>>>>

RECURSIVE StrLen(_)
\* len(s)
StrLen(s) == IF s = <<>> THEN 0 ELSE Len(s[1][1]) * s[1][2] + StrLen(Tail(s))

IsSpaceTok(t) == t[1] \in {" ", "\t", "\n"}

RECURSIVE LStrip(_)
LStrip(s) == IF s = <<>> THEN <<>>
             ELSE IF IsSpaceTok(s[1]) THEN LStrip(Tail(s)) ELSE s

RECURSIVE RStrip(_)
RStrip(s) == IF s = <<>> THEN <<>>
             ELSE IF IsSpaceTok(s[Len(s)]) THEN RStrip(SubSeq(s, 1, Len(s) - 1)) ELSE s

\* str.strip()
Strip(s) == RStrip(LStrip(s))

\* `v or ""` for a string-or-None value
OrEmpty(v) == IF v = None \/ v = <<>> THEN <<>> ELSE v

RECURSIVE Join(_, _)
\* sep.join(parts)
Join(sep, parts) == IF parts = <<>> THEN <<>>
                    ELSE IF Len(parts) = 1 THEN parts[1]
                    ELSE parts[1] \o sep \o Join(sep, Tail(parts))

RECURSIVE Expand(_)
\* the characters of a string of one-character tokens
Expand(s) == IF s = <<>> THEN <<>>
             ELSE [i \in 1..s[1][2] |-> s[1][1]] \o Expand(Tail(s))

RECURSIVE Pack(_)
\* the string of a sequence of characters
Pack(cs) == IF cs = <<>> THEN <<>> ELSE <<<<cs[1], 1>>>> \o Pack(Tail(cs))

\* ------------------------------------------------------------------------
\* json.loads, for inputs without whitespace, escapes, fractions, signs,
\* objects or nested arrays: a scalar (string, integer, null/true/false) or
\* an array of scalars.  Any other input of that alphabet is a decode error.
\* ------------------------------------------------------------------------
Digits == {"0", "1", "2", "3", "4", "5", "6", "7", "8", "9"}

RECURSIVE ScanString(_, _)
\* position of the first quote at or after i; 0 when there is none
ScanString(cs, i) == IF i > Len(cs) THEN 0
                     ELSE IF cs[i] = "\"" THEN i ELSE ScanString(cs, i + 1)

RECURSIVE ScanDigits(_, _)
\* first position at or after i that holds no digit
ScanDigits(cs, i) == IF i > Len(cs) THEN i
                     ELSE IF cs[i] \in Digits THEN ScanDigits(cs, i + 1) ELSE i

StartsWith(cs, i, w) == /\ i + Len(w) - 1 <= Len(cs)
                        /\ SubSeq(cs, i, i + Len(w) - 1) = w

\* one scalar at position i: [ok, next, text], text being str(value)
ParseScalar(cs, i) ==
    IF i > Len(cs) THEN [ok |-> FALSE, next |-> i, text |-> <<>>]
    ELSE IF cs[i] = "\"" THEN
        LET j == ScanString(cs, i + 1) IN
        IF j = 0 THEN [ok |-> FALSE, next |-> i, text |-> <<>>]
        ELSE [ok |-> TRUE, next |-> j + 1, text |-> Pack(SubSeq(cs, i + 1, j - 1))]
    ELSE IF cs[i] = "0" THEN [ok |-> TRUE, next |-> i + 1, text |-> Pack(<<"0">>)]
    ELSE IF cs[i] \in Digits THEN
        LET j == ScanDigits(cs, i) IN
        [ok |-> TRUE, next |-> j, text |-> Pack(SubSeq(cs, i, j - 1))]
    ELSE IF StartsWith(cs, i, <<"n", "u", "l", "l">>) THEN
        [ok |-> TRUE, next |-> i + 4, text |-> Lit("None")]
    ELSE IF StartsWith(cs, i, <<"t", "r", "u", "e">>) THEN
        [ok |-> TRUE, next |-> i + 4, text |-> Lit("True")]
    ELSE IF StartsWith(cs, i, <<"f", "a", "l", "s", "e">>) THEN
        [ok |-> TRUE, next |-> i + 5, text |-> Lit("False")]
    ELSE [ok |-> FALSE, next |-> i, text |-> <<>>]

JsonError == [ok |-> FALSE, list |-> FALSE, items |-> <<>>]

RECURSIVE ParseElems(_, _, _)
\* the elements of an array from position i on, acc being those read so far
ParseElems(cs, i, acc) ==
    LET r == ParseScalar(cs, i) IN
    IF ~r.ok \/ r.next > Len(cs) THEN JsonError
    ELSE IF cs[r.next] = "," THEN ParseElems(cs, r.next + 1, Append(acc, r.text))
    ELSE IF cs[r.next] = "]" /\ r.next = Len(cs)
         THEN [ok |-> TRUE, list |-> TRUE, items |-> Append(acc, r.text)]
    ELSE JsonError

\* json.loads(cs): ok = FALSE is JSONDecodeError; list tells a list from
\* any other value; items are the list's elements, each as str(element)
JsonLoads(cs) ==
    IF cs = <<>> THEN JsonError
    ELSE IF cs[1] = "[" THEN
        IF Len(cs) = 2 /\ cs[2] = "]" THEN [ok |-> TRUE, list |-> TRUE, items |-> <<>>]
        ELSE ParseElems(cs, 2, <<>>)
    ELSE LET r == ParseScalar(cs, 1) IN
         IF r.ok /\ r.next = Len(cs) + 1
         THEN [ok |-> TRUE, list |-> FALSE, items |-> <<>>]
         ELSE JsonError

\* ------------------------------------------------------------------------
\* TextAssembler: EmbeddingProcessor._build_text_for_embedding
\* A note is [id, title, excerpt, categories, tags, transcription]; title,
\* excerpt, categories, transcription are strings or None; tags is
\* [k |-> "none"], [k |-> "str", v |-> string] or [k |-> "list", v |-> strings].
\* ------------------------------------------------------------------------
Label(name) == Lit(name) \o Lit(":") \o Lit(" ")
Separator == Lit(" ") \o Lit("|") \o Lit(" ")
TagSeparator == Lit(",") \o Lit(" ")

\* the part of one plain field: none when it is blank after strip()
FieldPart(name, value) ==
    LET v == OrEmpty(value) IN
    IF Strip(v) # <<>> THEN <<Label(name) \o Strip(v)>> ELSE <<>>

\* the part of the tags field
TagsPart(tags) ==
    IF tags.k = "none" THEN <<>>
    ELSE IF tags.v = <<>> THEN <<>>
    ELSE IF tags.k = "str" THEN
        LET r == JsonLoads(Expand(tags.v)) IN
        IF ~r.ok THEN <<Label("Tags") \o tags.v>>
        ELSE IF r.list /\ r.items # <<>>
             THEN <<Label("Tags") \o Join(TagSeparator, r.items)>>
        ELSE <<>>
    ELSE <<Label("Tags") \o Join(TagSeparator, tags.v)>>

build_text_for_embedding(note) ==
    Join(Separator,
         FieldPart("Title", note.title)
         \o FieldPart("Excerpt", note.excerpt)
         \o FieldPart("Category", note.categories)
         \o TagsPart(note.tags)
         \o FieldPart("Content", note.transcription))

\* ------------------------------------------------------------------------
\* State
\* ------------------------------------------------------------------------
VARIABLES
    provider,       \* self.provider: "openai" or "gemini"
    dry_run,        \* self.dry_run
    missing_vars,   \* _init_clients: the required variables found missing
    rows,           \* the notes table, one record per row (the embedding column apart)
    stored,         \* the embedding column: stored[r] is row r's embedding, or NoEmbedding
    pc,             \* position of the run
    exit_code,      \* the process's exit code, -1 while it runs
    notes,          \* process(): the fetched notes
    vpos,           \* process(): position of the validation loop in notes
    valid_notes,    \* process(): the accepted (note, text) pairs
    stats,          \* self.stats
    skipped_notes,  \* self.skipped_notes
    error_notes,    \* self.error_notes
    index,          \* _process_notes_single: position in valid_notes (1-based)
    batch_start,    \* _process_notes_batch: first position of the chunk (0-based)
    member,         \* _process_notes_batch: position of the inner loop in the chunk
    attempt,        \* the retry wrappers' attempt
    embedding,      \* _process_notes_single: the wrapper's result
    embeddings,     \* _process_notes_batch: the wrapper's result, a dict by note id
    log,            \* the calls made to the provider, the store and time.sleep, in order
    budget          \* what is left of MaxFailures and MaxAnomalies

vars == <<provider, dry_run, missing_vars, rows, stored, pc, exit_code, notes, vpos, valid_notes,
          stats, skipped_notes, error_notes, index, batch_start, member, attempt,
          embedding, embeddings, log, budget>>

\* Python's None where a vector is expected
NoEmbedding == [of |-> None, dim |-> 0]

\* the vector the provider computes for a text, with dim components
Vector(text, dim) == [of |-> text, dim |-> dim]

\* a dimension other than the expected one
OtherDimension == EXPECTED_VECTOR_DIMENSION \div 2

Min(a, b) == IF a < b THEN a ELSE b

\* ------------------------------------------------------------------------
\* The notes table the run starts from
\* ------------------------------------------------------------------------
NoTags == [k |-> "none"]
Blank == [title |-> None, excerpt |-> <<>>, categories |-> Rep(" ", 2),
          tags |-> NoTags, transcription |-> None]

\* the length of "Content: "
ContentLabelLen == StrLen(Label("Content"))

NoteKinds == {"empty", "short", "max", "long", "done"}

\* the fields of a row of each kind
KindFields(kind) ==
    CASE kind = "empty"  -> Blank
      [] kind = "short"  -> [Blank EXCEPT !.title = Lit("a"),
                                          !.tags = [k |-> "list", v |-> <<Lit("t")>>],
                                          !.transcription = Rep(" ", 1) \o Rep("x", 3)]
      [] kind = "max"    -> [Blank EXCEPT !.transcription =
                                Rep("x", MAX_TEXT_LENGTH - ContentLabelLen)]
      [] kind = "long"   -> [Blank EXCEPT !.transcription =
                                Rep("x", MAX_TEXT_LENGTH - ContentLabelLen + 1)]
      [] kind = "done"   -> [Blank EXCEPT !.title = Lit("d")]

MkRow(r, kind) ==
    LET f == KindFields(kind) IN
    [id |-> r, status |-> "completed", title |-> f.title, excerpt |-> f.excerpt,
     categories |-> f.categories, tags |-> f.tags, transcription |-> f.transcription]

\* the columns the fetch selects
Selected(row) == [id |-> row.id, title |-> row.title, excerpt |-> row.excerpt,
                  categories |-> row.categories, tags |-> row.tags,
                  transcription |-> row.transcription]

InitStats == [total_found |-> 0, processed |-> 0, errors |-> 0,
              skipped_too_long |-> 0, skipped_empty |-> 0, api_calls |-> 0]

Init ==
    /\ provider \in {"openai", "gemini"}
    /\ dry_run \in BOOLEAN
    /\ \E kinds \in [1..MaxNotes -> NoteKinds] :
          /\ rows = [r \in 1..MaxNotes |-> MkRow(r, kinds[r])]
          /\ stored = [r \in 1..MaxNotes |->
                          IF kinds[r] = "done"
                          THEN Vector(build_text_for_embedding(MkRow(r, kinds[r])),
                                      EXPECTED_VECTOR_DIMENSION)
                          ELSE NoEmbedding]
    /\ missing_vars = {}
    /\ pc = "init_clients"
    /\ exit_code = -1
    /\ notes = <<>>
    /\ vpos = 1
    /\ valid_notes = <<>>
    /\ stats = InitStats
    /\ skipped_notes = <<>>
    /\ error_notes = <<>>
    /\ index = 1
    /\ batch_start = 0
    /\ member = 1
    /\ attempt = 1
    /\ embedding = NoEmbedding
    /\ embeddings = <<>>
    /\ log = <<>>
    /\ budget = [fail |-> MaxFailures, odd |-> MaxAnomalies]

\* ------------------------------------------------------------------------
\* Helpers of the run
\* ------------------------------------------------------------------------
\* `note.get("title") or "Senza titolo"`
DisplayTitle(note) == IF OrEmpty(note.title) = <<>> THEN Lit("Senza titolo") ELSE note.title

Event(type) == [ev |-> type]
\* the count query, and whether it returned
CountEvent(ok) == [ev |-> "count", ok |-> ok]
\* a provider call of unit (the note's position on the single path, the chunk's
\* batch_start on the batch path) for the notes ids with the texts, whether it
\* returned, and the number of vectors it returned
CallEvent(unit, ids, texts, ok, returned) ==
    [ev |-> "call", unit |-> unit, ids |-> ids, texts |-> texts, ok |-> ok,
     returned |-> returned]
SleepEvent(unit, secs) == [ev |-> "sleep", unit |-> unit, secs |-> secs]
UpdateEvent(id, vec, res) == [ev |-> "update", id |-> id, vec |-> vec, res |-> res]

\* the environment variables _init_clients requires
RequiredVars == {"SUPABASE_URL", "SUPABASE_KEY",
                 IF provider = "openai" THEN "OPENAI_API_KEY" ELSE "GEMINI_API_KEY"}
EnvVars == {"SUPABASE_URL", "SUPABASE_KEY", "OPENAI_API_KEY", "GEMINI_API_KEY"}

\* PROVIDER_CONFIG[provider]["supports_batch"]
SupportsBatch == provider = "gemini"

\* PendingRows without the `embedding IS NULL` filter
PendingRowsAnyEmbedding == SelectSeq(rows, LAMBDA row : row.status = "completed")

\* rows matching status = 'completed' and embedding IS NULL, in table order
PendingRows == SelectSeq(rows, LAMBDA row : row.status = "completed"
                                             /\ stored[row.id] = NoEmbedding)

\* Classify rejecting a text of exactly MAX_TEXT_LENGTH characters
ClassifyInclusive(text) == IF Strip(text) = <<>> THEN "empty"
                           ELSE IF StrLen(text) >= MAX_TEXT_LENGTH THEN "too_long"
                           ELSE "accepted"

\* Classify without the length check
ClassifyNoLimit(text) == IF Strip(text) = <<>> THEN "empty" ELSE "accepted"

\* the validation of process(), step 3
Classify(text) == IF Strip(text) = <<>> THEN "empty"
                  ELSE IF StrLen(text) > MAX_TEXT_LENGTH THEN "too_long"
                  ELSE "accepted"

\* SkipSummary measuring the transcription instead of the assembled text
SkipSummaryRawLength(note, text) ==
    [id |-> note.id, title |-> DisplayTitle(note),
     text_length |-> StrLen(OrEmpty(note.transcription))]

\* the entry of skipped_notes for a note whose text is too long
SkipSummary(note, text) ==
    [id |-> note.id, title |-> DisplayTitle(note), text_length |-> StrLen(text)]

\* WaitTime with the operands of ** swapped
WaitTimeSwapped(a) == a ^ 2

\* wait_time = 2 ** attempt
WaitTime(a) == 2 ^ a

\* RetriesLeft off by one: the last attempt sleeps and retries too
RetriesLeftInclusive(a) == a <= MAX_RETRIES

\* `if attempt < MAX_RETRIES`: sleep and try again, else give up
RetriesLeft(a) == a < MAX_RETRIES

Bump(field) == [stats EXCEPT ![field] = @ + 1]

\* ErrorNote with the note's title as fetched in place of the display title
ErrorNoteRawTitle(note, reason) == [id |-> note.id, title |-> note.title, error |-> reason]

ErrorNote(note, reason) == [id |-> note.id, title |-> DisplayTitle(note), error |-> reason]

\* StoreWrite as UPDATE ... WHERE id = note_id AND embedding IS NULL
StoreWriteIfAbsent(note_id, vec) ==
    [r \in DOMAIN stored |-> IF rows[r].id = note_id /\ stored[r] = NoEmbedding
                             THEN vec ELSE stored[r]]

\* StoreWrite as an UPDATE without its WHERE id = note_id
StoreWriteEveryRow(note_id, vec) ==
    [r \in DOMAIN stored |-> vec]

\* the store's UPDATE ... WHERE id = note_id
StoreWrite(note_id, vec) ==
    [r \in DOMAIN stored |-> IF rows[r].id = note_id THEN vec ELSE stored[r]]

\* the outcomes of one store update: a confirmed write, no row returned, an exception
StoreOutcomes == {"ok"} \cup (IF budget.odd > 0 THEN {"empty", "raise"} ELSE {})

\* the outcomes of one provider call: the vectors asked for, vectors of another
\* dimension, fewer vectors than texts (batch only), an exception
SingleOutcomes == {"ok"} \cup (IF budget.odd > 0 THEN {"dim"} ELSE {})
                         \cup (IF budget.fail > 0 THEN {"fail"} ELSE {})
BatchOutcomes == SingleOutcomes \cup (IF budget.odd > 0 THEN {"short"} ELSE {})

Spend(outcome) ==
    CASE outcome \in {"dim", "short", "empty", "raise"} -> [budget EXCEPT !.odd = @ - 1]
      [] outcome = "fail" -> [budget EXCEPT !.fail = @ - 1]
      [] OTHER -> budget

\* ------------------------------------------------------------------------
\* main(): an exception that nothing else caught prints "Errore critico" and
\* ends the process with sys.exit(1)
\* ------------------------------------------------------------------------
CriticalError ==
    /\ pc' = "exited"
    /\ exit_code' = 1
    /\ log' = Append(log, Event("critical"))

\* ------------------------------------------------------------------------
\* __init__ / _init_clients: exit(1) when a required variable is missing
\* ------------------------------------------------------------------------
\* InitClients without the sys.exit(1): the missing variables are reported
\* and the run goes on
InitClientsWithoutExit ==
    /\ pc = "init_clients"
    /\ \E env \in {EnvVars} \cup {EnvVars \ {v} : v \in EnvVars} :
          /\ missing_vars' = RequiredVars \ env
          /\ \/ /\ pc' = "fetch"
                /\ UNCHANGED <<exit_code, log>>
             \/ /\ missing_vars' = {}
                /\ CriticalError
    /\ UNCHANGED <<provider, dry_run, rows, stored, notes, vpos, valid_notes,
                   stats, skipped_notes, error_notes, index, batch_start, member,
                   attempt, embedding, embeddings, budget>>

InitClients ==
    /\ pc = "init_clients"
    /\ \E env \in {EnvVars} \cup {EnvVars \ {v} : v \in EnvVars} :
          /\ missing_vars' = RequiredVars \ env
          /\ IF missing_vars' # {}
             THEN /\ pc' = "exited"
                  /\ exit_code' = 1
                  /\ log' = log
             ELSE \/ /\ pc' = "fetch"
                     /\ UNCHANGED <<exit_code, log>>
                  \/ \* creating a client raises: not handled in the class
                     CriticalError
    /\ UNCHANGED <<provider, dry_run, rows, stored, notes, vpos, valid_notes, stats,
                   skipped_notes, error_notes, index, batch_start, member, attempt,
                   embedding, embeddings, budget>>

\* ------------------------------------------------------------------------
\* process(), step 1: fetch up to BATCH_LIMIT pending notes
\* ------------------------------------------------------------------------
FetchedNotes ==
    LET pending == PendingRows IN
    [j \in 1..Min(BATCH_LIMIT, Len(pending)) |-> Selected(pending[j])]

\* Fetch returning from process() without the report when nothing is pending
FetchWithoutReport ==
    /\ pc = "fetch"
    /\ \/ /\ notes' = FetchedNotes
          /\ stats' = [stats EXCEPT !.total_found = Len(FetchedNotes)]
          /\ log' = Append(log, Event("fetch"))
          /\ pc' = IF FetchedNotes = <<>> THEN "done" ELSE "count"
          /\ exit_code' = IF FetchedNotes = <<>> THEN 0 ELSE exit_code
       \/ /\ pc' = "exited"
          /\ exit_code' = 1
          /\ UNCHANGED <<notes, stats, log>>
    /\ UNCHANGED <<provider, dry_run, missing_vars, rows, stored, vpos, valid_notes,
                   skipped_notes, error_notes, index, batch_start, member, attempt,
                   embedding, embeddings, budget>>

\* Fetch with the failed query ending the process like a normal return
FetchFailureExitsZero ==
    /\ pc = "fetch"
    /\ \/ /\ notes' = FetchedNotes
          /\ stats' = [stats EXCEPT !.total_found = Len(FetchedNotes)]
          /\ log' = Append(log, Event("fetch"))
          /\ pc' = IF FetchedNotes = <<>> THEN "report" ELSE "count"
          /\ exit_code' = exit_code
       \/ /\ pc' = "exited"
          /\ exit_code' = 0
          /\ UNCHANGED <<notes, stats, log>>
    /\ UNCHANGED <<provider, dry_run, missing_vars, rows, stored, vpos, valid_notes,
                   skipped_notes, error_notes, index, batch_start, member, attempt,
                   embedding, embeddings, budget>>

Fetch ==
    /\ pc = "fetch"
    /\ \/ /\ notes' = FetchedNotes
          /\ stats' = [stats EXCEPT !.total_found = Len(FetchedNotes)]
          /\ log' = Append(log, Event("fetch"))
          /\ pc' = IF FetchedNotes = <<>> THEN "report" ELSE "count"
          /\ exit_code' = exit_code
       \/ \* the query raises
          /\ pc' = "exited"
          /\ exit_code' = 1
          /\ UNCHANGED <<notes, stats, log>>
    /\ UNCHANGED <<provider, dry_run, missing_vars, rows, stored, vpos, valid_notes,
                   skipped_notes, error_notes, index, batch_start, member, attempt,
                   embedding, embeddings, budget>>

\* CountPending with the exception of the count query ending the run
CountPendingFatal ==
    /\ pc = "count"
    /\ \E ok \in {TRUE} \cup (IF budget.odd > 0 THEN {FALSE} ELSE {}) :
          /\ log' = Append(log, CountEvent(ok))
          /\ budget' = IF ok THEN budget ELSE Spend("raise")
          /\ pc' = IF ok THEN "validate" ELSE "exited"
          /\ exit_code' = IF ok THEN exit_code ELSE 1
    /\ UNCHANGED <<provider, dry_run, missing_vars, rows, stored, notes, vpos, valid_notes,
                   stats, skipped_notes, error_notes, index, batch_start, member,
                   attempt, embedding, embeddings>>

\* process(), step 2: the count of all pending notes, used for a message only
CountPending ==
    /\ pc = "count"
    /\ \E ok \in {TRUE} \cup (IF budget.odd > 0 THEN {FALSE} ELSE {}) :
          \* total_pending is used for a message only; an exception is swallowed
          /\ log' = Append(log, CountEvent(ok))
          /\ budget' = IF ok THEN budget ELSE Spend("raise")
    /\ pc' = "validate"
    /\ UNCHANGED <<provider, dry_run, missing_vars, rows, stored, exit_code, notes, vpos, valid_notes,
                   stats, skipped_notes, error_notes, index, batch_start, member,
                   attempt, embedding, embeddings>>

\* ------------------------------------------------------------------------
\* process(), step 3: one iteration of the validation loop; after the last
\* one, the branch to the report or to the single or batch path
\* ------------------------------------------------------------------------
AfterValidation(valid) ==
    IF valid = <<>> THEN "report"
    ELSE IF provider = "gemini" /\ SupportsBatch THEN "batch_call" ELSE "single_call"

\* ValidateNote counting no note skipped as empty
ValidateNoteUncountedEmpty ==
    /\ pc = "validate"
    /\ LET note == notes[vpos]
           text == build_text_for_embedding(note)
           outcome == Classify(text)
       IN  /\ stats' = CASE outcome = "too_long" -> Bump("skipped_too_long")
                         [] OTHER -> stats
           /\ skipped_notes' = IF outcome = "too_long"
                               THEN Append(skipped_notes, SkipSummary(note, text))
                               ELSE skipped_notes
           /\ valid_notes' = IF outcome = "accepted"
                             THEN Append(valid_notes, <<note, text>>)
                             ELSE valid_notes
    /\ vpos' = vpos + 1
    /\ pc' = IF vpos < Len(notes) THEN "validate" ELSE AfterValidation(valid_notes')
    /\ UNCHANGED <<provider, dry_run, missing_vars, rows, stored, exit_code, notes, error_notes,
                   index, batch_start, member, attempt, embedding, embeddings, log,
                   budget>>

ValidateNote ==
    /\ pc = "validate"
    /\ LET note == notes[vpos]
           text == build_text_for_embedding(note)
           outcome == Classify(text)
       IN  /\ stats' = CASE outcome = "empty" -> Bump("skipped_empty")
                         [] outcome = "too_long" -> Bump("skipped_too_long")
                         [] OTHER -> stats
           /\ skipped_notes' = IF outcome = "too_long"
                               THEN Append(skipped_notes, SkipSummary(note, text))
                               ELSE skipped_notes
           /\ valid_notes' = IF outcome = "accepted"
                             THEN Append(valid_notes, <<note, text>>)
                             ELSE valid_notes
    /\ vpos' = vpos + 1
    /\ pc' = IF vpos < Len(notes) THEN "validate" ELSE AfterValidation(valid_notes')
    /\ UNCHANGED <<provider, dry_run, missing_vars, rows, stored, exit_code, notes, error_notes,
                   index, batch_start, member, attempt, embedding, embeddings, log,
                   budget>>

\* ------------------------------------------------------------------------
\* Provider adapters and the store update
\* ------------------------------------------------------------------------
\* ApiCallsAfter counting the texts of the call instead of the call
ApiCallsPerText(texts, ok) ==
    IF ok THEN [stats EXCEPT !.api_calls = @ + Len(texts)] ELSE stats

\* _generate_embedding_openai / _gemini / _gemini_batch: the counter moves
\* after the provider's call has returned, by one per call
ApiCallsAfter(texts, ok) ==
    IF ok THEN [stats EXCEPT !.api_calls = @ + 1] ELSE stats

\* the provider's answer to texts under an outcome that is no exception
Response(texts, outcome) ==
    LET dim == IF outcome = "dim" THEN OtherDimension ELSE EXPECTED_VECTOR_DIMENSION
        n == IF outcome = "short" THEN Len(texts) - 1 ELSE Len(texts)
    IN  [j \in 1..n |-> Vector(texts[j], dim)]

\* DictZip keeping the first pair of a key instead of the last
DictZipFirstWins(note_ids, vectors) ==
    LET n == Min(Len(note_ids), Len(vectors))
        First(id) == CHOOSE j \in 1..n :
                        /\ note_ids[j] = id
                        /\ \A j2 \in 1..n : note_ids[j2] = id => j2 >= j
    IN  [id \in {note_ids[j] : j \in 1..n} |-> vectors[First(id)]]

\* DictZip giving the members beyond a short list the list's last vector
DictZipPadded(note_ids, vectors) ==
    LET n == Min(Len(note_ids), Len(vectors))
        Last(id) == CHOOSE j \in 1..n :
                        /\ note_ids[j] = id
                        /\ \A j2 \in 1..n : note_ids[j2] = id => j2 <= j
    IN  [id \in {note_ids[j] : j \in 1..Len(note_ids)} |->
            IF \E j \in 1..n : note_ids[j] = id THEN vectors[Last(id)]
            ELSE IF n > 0 THEN vectors[n] ELSE NoEmbedding]

\* dict(zip(note_ids, vectors)): pairs by position up to the shorter length,
\* a later pair replacing an earlier one of the same key
DictZip(note_ids, vectors) ==
    LET n == Min(Len(note_ids), Len(vectors))
        Last(id) == CHOOSE j \in 1..n :
                        /\ note_ids[j] = id
                        /\ \A j2 \in 1..n : note_ids[j2] = id => j2 <= j
    IN  [id \in {note_ids[j] : j \in 1..n} |-> vectors[Last(id)]]

\* {note_id: None for note_id in note_ids}
DictNone(note_ids) == [id \in {note_ids[j] : j \in 1..Len(note_ids)} |-> NoEmbedding]

\* embeddings.get(note_id)
DictGet(d, id) == IF id \in DOMAIN d THEN d[id] ELSE NoEmbedding

\* update_note_embedding refusing a vector of another dimension
update_rejecting_other_dimension(note_id, vec, result) ==
    IF vec.dim # EXPECTED_VECTOR_DIMENSION
    THEN /\ result = FALSE
         /\ UNCHANGED <<stored, log, budget>>
    ELSE IF dry_run
    THEN /\ result = TRUE
         /\ UNCHANGED <<stored, log, budget>>
    ELSE \E out \in StoreOutcomes :
            /\ stored' = IF out = "ok" THEN StoreWrite(note_id, vec) ELSE stored
            /\ log' = Append(log, UpdateEvent(note_id, vec, out))
            /\ budget' = Spend(out)
            /\ result = (out = "ok")

\* update_note_embedding without the dry-run branch
update_ignoring_dry_run(note_id, vec, result) ==
    \E out \in StoreOutcomes :
       /\ stored' = IF out = "ok" THEN StoreWrite(note_id, vec) ELSE stored
       /\ log' = Append(log, UpdateEvent(note_id, vec, out))
       /\ budget' = Spend(out)
       /\ result = (out = "ok")

\* update_note_embedding returning True when the store returned no row
update_confirming_no_row(note_id, vec, result) ==
    IF dry_run
    THEN /\ result = TRUE
         /\ UNCHANGED <<stored, log, budget>>
    ELSE \E out \in StoreOutcomes :
            /\ stored' = IF out = "ok" THEN StoreWrite(note_id, vec) ELSE stored
            /\ log' = Append(log, UpdateEvent(note_id, vec, out))
            /\ budget' = Spend(out)
            /\ result = (out \in {"ok", "empty"})

\* _update_note_embedding(note_id, vec) returning result
update_note_embedding(note_id, vec, result) ==
    IF dry_run
    THEN /\ result = TRUE
         /\ UNCHANGED <<stored, log, budget>>
    ELSE \E out \in StoreOutcomes :
            /\ stored' = IF out = "ok" THEN StoreWrite(note_id, vec) ELSE stored
            /\ log' = Append(log, UpdateEvent(note_id, vec, out))
            /\ budget' = Spend(out)
            /\ result = (out = "ok")

\* AfterUpdate counting the note as processed whatever the update returned
AfterUpdateAlwaysProcessed(note, result) ==
    /\ stats' = Bump("processed")
    /\ error_notes' = error_notes

\* the accounting after _update_note_embedding, same in both paths
AfterUpdate(note, result) ==
    IF result
    THEN /\ stats' = Bump("processed")
         /\ error_notes' = error_notes
    ELSE /\ stats' = Bump("errors")
         /\ error_notes' = Append(error_notes,
                                  ErrorNote(note, "Aggiornamento database fallito"))

\* ------------------------------------------------------------------------
\* _process_notes_single with _generate_embedding_with_retry
\* ------------------------------------------------------------------------
\* one attempt of _generate_embedding_with_retry for valid_notes[index]; when
\* the last attempt fails the wrapper returns None and the loop records the
\* error and continues with the next note
SingleCall ==
    /\ pc = "single_call"
    /\ LET note == valid_notes[index][1]
           text == valid_notes[index][2]
       IN  \E outcome \in SingleOutcomes :
             /\ budget' = Spend(outcome)
             /\ log' = Append(log, CallEvent(index, <<note.id>>, <<text>>, outcome # "fail",
                                             IF outcome = "fail" THEN 0 ELSE 1))
             /\ stats' = IF outcome = "fail" /\ ~RetriesLeft(attempt)
                         THEN Bump("errors")
                         ELSE ApiCallsAfter(<<text>>, outcome # "fail")
             /\ IF outcome # "fail"
                THEN /\ embedding' = Response(<<text>>, outcome)[1]
                     /\ pc' = "single_update"
                     /\ UNCHANGED <<error_notes, index, attempt>>
                ELSE IF RetriesLeft(attempt)
                THEN /\ pc' = "single_backoff"
                     /\ UNCHANGED <<embedding, error_notes, index, attempt>>
                ELSE /\ embedding' = NoEmbedding
                     /\ error_notes' = Append(error_notes,
                                              ErrorNote(note, "Generazione embedding fallita"))
                     /\ IF index < Len(valid_notes)
                        THEN /\ index' = index + 1
                             /\ attempt' = 1
                             /\ pc' = "single_call"
                        ELSE /\ pc' = "report"
                             /\ UNCHANGED <<index, attempt>>
    /\ UNCHANGED <<provider, dry_run, missing_vars, rows, stored, exit_code, notes, vpos, valid_notes,
                   skipped_notes, batch_start, member, embeddings>>

\* SingleBackoff that does not count the attempt
SingleBackoffSameAttempt ==
    /\ pc = "single_backoff"
    /\ log' = Append(log, SleepEvent(index, WaitTime(attempt)))
    /\ attempt' = attempt
    /\ pc' = "single_call"
    /\ UNCHANGED <<provider, dry_run, missing_vars, rows, stored, exit_code, notes, vpos, valid_notes,
                   stats, skipped_notes, error_notes, index, batch_start, member,
                   embedding, embeddings, budget>>

\* time.sleep(wait_time) between two attempts
SingleBackoff ==
    /\ pc = "single_backoff"
    /\ log' = Append(log, SleepEvent(index, WaitTime(attempt)))
    /\ attempt' = attempt + 1
    /\ pc' = "single_call"
    /\ UNCHANGED <<provider, dry_run, missing_vars, rows, stored, exit_code, notes, vpos, valid_notes,
                   stats, skipped_notes, error_notes, index, batch_start, member,
                   embedding, embeddings, budget>>

\* the update of valid_notes[index] and its accounting
SingleUpdate ==
    /\ pc = "single_update"
    /\ LET note == valid_notes[index][1] IN
       \E result \in BOOLEAN :
          /\ update_note_embedding(note.id, embedding, result)
          /\ AfterUpdate(note, result)
    /\ pc' = IF index < Len(valid_notes) THEN "single_delay" ELSE "report"
    /\ UNCHANGED <<provider, dry_run, missing_vars, rows, exit_code, notes, vpos, valid_notes,
                   skipped_notes, index, batch_start, member, attempt, embedding,
                   embeddings>>

\* time.sleep(DELAY_BETWEEN_CALLS), then the next note
SingleDelay ==
    /\ pc = "single_delay"
    /\ log' = Append(log, Event("delay"))
    /\ index' = index + 1
    /\ attempt' = 1
    /\ pc' = "single_call"
    /\ UNCHANGED <<provider, dry_run, missing_vars, rows, stored, exit_code, notes, vpos, valid_notes,
                   stats, skipped_notes, error_notes, batch_start, member, embedding,
                   embeddings, budget>>

\* ------------------------------------------------------------------------
\* _process_notes_batch with _generate_embeddings_batch_with_retry
\* ------------------------------------------------------------------------
\* NextBatchStart stepping to the chunk's last member instead of past it
NextBatchStartOverlap(start) == start + GEMINI_BATCH_SIZE - 1

\* for batch_start in range(0, total_notes, GEMINI_BATCH_SIZE)
NextBatchStart(start) == start + GEMINI_BATCH_SIZE

\* batch_end = min(batch_start + GEMINI_BATCH_SIZE, total_notes)
BatchEnd(start, total_notes) == Min(start + GEMINI_BATCH_SIZE, total_notes)

\* BatchNotes with the chunk taken in reverse order
BatchNotesReversed ==
    LET last == BatchEnd(batch_start, Len(valid_notes)) IN
    [j \in 1..(last - batch_start) |-> valid_notes[last + 1 - j]]

\* batch_notes = valid_notes[batch_start:batch_end]
BatchNotes == SubSeq(valid_notes, batch_start + 1, BatchEnd(batch_start, Len(valid_notes)))

Texts(batch) == [j \in 1..Len(batch) |-> batch[j][2]]
NoteIds(batch) == [j \in 1..Len(batch) |-> batch[j][1].id]

\* one attempt of _generate_embeddings_batch_with_retry for the chunk
BatchCall ==
    /\ pc = "batch_call"
    /\ LET texts == Texts(BatchNotes)
           note_ids == NoteIds(BatchNotes)
       IN  \E outcome \in BatchOutcomes :
             /\ budget' = Spend(outcome)
             /\ log' = Append(log, CallEvent(batch_start, note_ids, texts, outcome # "fail",
                                             IF outcome = "fail" THEN 0
                                             ELSE Len(Response(texts, outcome))))
             /\ stats' = ApiCallsAfter(texts, outcome # "fail")
             /\ IF outcome # "fail"
                THEN /\ embeddings' = DictZip(note_ids, Response(texts, outcome))
                     /\ pc' = "batch_update"
                ELSE IF RetriesLeft(attempt)
                THEN /\ pc' = "batch_backoff"
                     /\ UNCHANGED embeddings
                ELSE /\ embeddings' = DictNone(note_ids)
                     /\ pc' = "batch_update"
    /\ member' = 1
    /\ UNCHANGED <<provider, dry_run, missing_vars, rows, stored, exit_code, notes, vpos, valid_notes,
                   skipped_notes, error_notes, index, batch_start, attempt, embedding>>

\* time.sleep(wait_time) between two attempts
BatchBackoff ==
    /\ pc = "batch_backoff"
    /\ log' = Append(log, SleepEvent(batch_start, WaitTime(attempt)))
    /\ attempt' = attempt + 1
    /\ pc' = "batch_call"
    /\ UNCHANGED <<provider, dry_run, missing_vars, rows, stored, exit_code, notes, vpos, valid_notes,
                   stats, skipped_notes, error_notes, index, batch_start, member,
                   embedding, embeddings, budget>>

\* HandleMember dropping a member without a vector without recording it
HandleMemberSilent(note, vec) ==
    IF vec = NoEmbedding
    THEN UNCHANGED <<stats, error_notes, stored, log, budget>>
    ELSE \E result \in BOOLEAN :
            /\ update_note_embedding(note.id, vec, result)
            /\ AfterUpdate(note, result)

\* HandleMember without the `continue`: a member without a vector is recorded
\* as an error and then updated like any other
HandleMemberNoContinue(note, vec) ==
    LET failed == vec = NoEmbedding
        stats1 == IF failed THEN Bump("errors") ELSE stats
        errors1 == IF failed
                   THEN Append(error_notes,
                               ErrorNote(note, "Generazione embedding fallita nel batch"))
                   ELSE error_notes
    IN  \E result \in BOOLEAN :
           /\ update_note_embedding(note.id, vec, result)
           /\ stats' = [stats1 EXCEPT ![IF result THEN "processed" ELSE "errors"] = @ + 1]
           /\ error_notes' = IF result THEN errors1
                             ELSE Append(errors1,
                                         ErrorNote(note, "Aggiornamento database fallito"))

\* HandleMember counting a member with a vector as processed without
\* persisting the vector
HandleMemberWithoutUpdate(note, vec) ==
    IF vec = NoEmbedding
    THEN /\ stats' = Bump("errors")
         /\ error_notes' = Append(error_notes,
                                  ErrorNote(note, "Generazione embedding fallita nel batch"))
         /\ UNCHANGED <<stored, log, budget>>
    ELSE /\ stats' = Bump("processed")
         /\ error_notes' = error_notes
         /\ UNCHANGED <<stored, log, budget>>

\* HandleMember recording a failed update with the reason of a member
\* that got no vector
HandleMemberBatchReason(note, vec) ==
    IF vec = NoEmbedding
    THEN /\ stats' = Bump("errors")
         /\ error_notes' = Append(error_notes,
                                  ErrorNote(note, "Generazione embedding fallita nel batch"))
         /\ UNCHANGED <<stored, log, budget>>
    ELSE \E result \in BOOLEAN :
            /\ update_note_embedding(note.id, vec, result)
            /\ IF result
               THEN /\ stats' = Bump("processed")
                    /\ error_notes' = error_notes
               ELSE /\ stats' = Bump("errors")
                    /\ error_notes' = Append(error_notes,
                          ErrorNote(note, "Generazione embedding fallita nel batch"))

\* the body of the inner loop for one member of the chunk: a member without a
\* vector is an error and is not updated (`continue`)
HandleMember(note, vec) ==
    IF vec = NoEmbedding
    THEN /\ stats' = Bump("errors")
         /\ error_notes' = Append(error_notes,
                                  ErrorNote(note, "Generazione embedding fallita nel batch"))
         /\ UNCHANGED <<stored, log, budget>>
    ELSE \E result \in BOOLEAN :
            /\ update_note_embedding(note.id, vec, result)
            /\ AfterUpdate(note, result)

\* BatchUpdate going to the next chunk without the delay when the chunk's
\* last member ended as an error
BatchUpdateNoDelayAfterError ==
    /\ pc = "batch_update"
    /\ LET note == BatchNotes[member][1] IN
       HandleMember(note, DictGet(embeddings, note.id))
    /\ IF member < Len(BatchNotes)
       THEN /\ member' = member + 1
            /\ pc' = "batch_update"
            /\ UNCHANGED <<batch_start, attempt>>
       ELSE /\ member' = member
            /\ IF BatchEnd(batch_start, Len(valid_notes)) >= Len(valid_notes)
               THEN /\ pc' = "report"
                    /\ UNCHANGED <<batch_start, attempt>>
               ELSE IF stats'.errors = stats.errors
               THEN /\ pc' = "batch_delay"
                    /\ UNCHANGED <<batch_start, attempt>>
               ELSE /\ pc' = "batch_call"
                    /\ batch_start' = NextBatchStart(batch_start)
                    /\ attempt' = 1
    /\ UNCHANGED <<provider, dry_run, missing_vars, rows, exit_code, notes, vpos,
                   valid_notes, skipped_notes, index, embedding, embeddings>>

\* one iteration of the inner loop: the chunk's member and its accounting
BatchUpdate ==
    /\ pc = "batch_update"
    /\ LET note == BatchNotes[member][1] IN
       HandleMember(note, DictGet(embeddings, note.id))
    /\ IF member < Len(BatchNotes)
       THEN /\ member' = member + 1
            /\ pc' = "batch_update"
       ELSE /\ member' = member
            /\ pc' = IF BatchEnd(batch_start, Len(valid_notes)) < Len(valid_notes)
                     THEN "batch_delay" ELSE "report"
    /\ UNCHANGED <<provider, dry_run, missing_vars, rows, exit_code, notes, vpos, valid_notes,
                   skipped_notes, index, batch_start, attempt, embedding, embeddings>>

\* time.sleep(DELAY_BETWEEN_CALLS), then the next chunk
BatchDelay ==
    /\ pc = "batch_delay"
    /\ log' = Append(log, Event("delay"))
    /\ batch_start' = NextBatchStart(batch_start)
    /\ attempt' = 1
    /\ pc' = "batch_call"
    /\ UNCHANGED <<provider, dry_run, missing_vars, rows, stored, exit_code, notes, vpos, valid_notes,
                   stats, skipped_notes, error_notes, index, member, embedding,
                   embeddings, budget>>

\* ------------------------------------------------------------------------
\* _print_final_report, after which process() returns and main() ends
\* ------------------------------------------------------------------------
PrintFinalReport ==
    /\ pc = "report"
    /\ log' = Append(log, Event("report"))
    /\ pc' = "done"
    /\ exit_code' = 0
    /\ UNCHANGED <<provider, dry_run, missing_vars, rows, stored, notes, vpos, valid_notes, stats,
                   skipped_notes, error_notes, index, batch_start, member, attempt,
                   embedding, embeddings, budget>>

Next ==
    \/ InitClients
    \/ Fetch
    \/ CountPending
    \/ ValidateNote
    \/ SingleCall
    \/ SingleBackoff
    \/ SingleUpdate
    \/ SingleDelay
    \/ BatchCall
    \/ BatchBackoff
    \/ BatchUpdate
    \/ BatchDelay
    \/ PrintFinalReport

Spec == Init /\ [][Next]_vars

\* ------------------------------------------------------------------------
\* The program run again after a run that ended with the report: a new
\* process, same command line, on the table as the last run left it
\* ------------------------------------------------------------------------
\* the number of the current run, 1 for the first
RunNumber == IF log # <<>> /\ log[1].ev = "rerun" THEN log[1].run ELSE 1

\* the mark the last run leaves at the head of the next run's log: the
\* number of the run that starts, and the last run's mode and counters
RerunEvent == [ev |-> "rerun", run |-> RunNumber + 1, dry_run |-> dry_run,
               stats |-> stats]

IsRerun(e) == e.ev = "rerun"

Rerun ==
    /\ pc = "done"
    /\ RunNumber < MaxRuns
    /\ log' = <<RerunEvent>>
    /\ pc' = "init_clients"
    /\ exit_code' = -1
    /\ missing_vars' = {}
    /\ notes' = <<>>
    /\ vpos' = 1
    /\ valid_notes' = <<>>
    /\ stats' = InitStats
    /\ skipped_notes' = <<>>
    /\ error_notes' = <<>>
    /\ index' = 1
    /\ batch_start' = 0
    /\ member' = 1
    /\ attempt' = 1
    /\ embedding' = NoEmbedding
    /\ embeddings' = <<>>
    /\ UNCHANGED <<provider, dry_run, rows, stored, budget>>

NextRerun ==
    \/ Next
    \/ Rerun

SpecRerun == Init /\ [][NextRerun]_vars

\* ------------------------------------------------------------------------
\* _process_notes_batch applied to any list of (note, text) pairs, notes
\* with the same id included
\* ------------------------------------------------------------------------
\* a note with the given id whose text differs from position to position
BatchInputNote(id, j) ==
    [id |-> id, title |-> Lit("a"), excerpt |-> <<>>, categories |-> <<>>,
     tags |-> NoTags, transcription |-> Rep("x", j)]

\* the lists of (note, text) with the given ids
BatchInput(ids) ==
    [j \in 1..Len(ids) |-> <<BatchInputNote(ids[j], j),
                             build_text_for_embedding(BatchInputNote(ids[j], j))>>]

InitBatch ==
    /\ provider = "gemini"
    /\ dry_run \in BOOLEAN
    /\ missing_vars = {}
    /\ \E n \in 1..MaxNotes : \E ids \in [1..n -> 1..MaxIds] :
          /\ valid_notes = BatchInput(ids)
          /\ notes = [j \in 1..n |-> BatchInput(ids)[j][1]]
          /\ rows = [j \in 1..n |-> BatchInput(ids)[j][1] @@ [status |-> "completed"]]
          /\ stored = [j \in 1..n |-> NoEmbedding]
          /\ vpos = n + 1
          /\ stats = [InitStats EXCEPT !.total_found = n]
    /\ pc = "batch_call"
    /\ exit_code = -1
    /\ skipped_notes = <<>>
    /\ error_notes = <<>>
    /\ index = 1
    /\ batch_start = 0
    /\ member = 1
    /\ attempt = 1
    /\ embedding = NoEmbedding
    /\ embeddings = <<>>
    /\ log = <<>>
    /\ budget = [fail |-> MaxFailures, odd |-> MaxAnomalies]

NextBatch ==
    \/ BatchCall
    \/ BatchBackoff
    \/ BatchUpdate
    \/ BatchDelay
    \/ PrintFinalReport

SpecBatch == InitBatch /\ [][NextBatch]_vars

\* ------------------------------------------------------------------------
\* Another writer on the same table (a second run of the program, or any
\* other client) while this real run is between its fetch and an update.
\* The run never reads the table between the two, so the write is placed
\* right before the update of the note it is for; it counts among the
\* anomalies of the run.
\* ------------------------------------------------------------------------
\* the embedding the other writer stores
OtherVector == [of |-> Lit("other"), dim |-> EXPECTED_VECTOR_DIMENSION]

OtherEvent(id) == [ev |-> "other", id |-> id]

IsOther(e) == e.ev = "other"

OtherWriter ==
    /\ pc \in {"single_update", "batch_update"}
    /\ ~dry_run
    /\ budget.odd > 0
    /\ LET id == IF pc = "single_update" THEN valid_notes[index][1].id
                 ELSE BatchNotes[member][1].id
       IN  /\ stored' = StoreWrite(id, OtherVector)
           /\ log' = Append(log, OtherEvent(id))
    /\ budget' = [budget EXCEPT !.odd = @ - 1]
    /\ UNCHANGED <<provider, dry_run, missing_vars, rows, pc, exit_code, notes, vpos,
                   valid_notes, stats, skipped_notes, error_notes, index, batch_start,
                   member, attempt, embedding, embeddings>>

NextConcurrent ==
    \/ Next
    \/ OtherWriter

SpecConcurrent == Init /\ [][NextConcurrent]_vars

\* ------------------------------------------------------------------------
\* The assembler and the validation on their own: the validation loop of
\* process() applied to one fetched note, its fields drawn from the values
\* below (absent, empty, blank, padded and plain texts; tags as a list, as
\* the JSON text of a list, and as other strings)
\* ------------------------------------------------------------------------
\* a text with blanks around it
Padded(c) == Rep(" ", 1) \o Lit(c) \o Rep(" ", 2)

TitleValues == {None, <<>>, Rep(" ", 2), Padded("t")}
ExcerptValues == {None, Rep(" ", 1), Lit("e")}
CategoriesValues == {None, Rep(" ", 1), Lit("c")}
TranscriptionValues == {None, <<>>, Rep(" ", 2), Padded("x")}

\* the tags a list is made of, the empty tag included
TagWords == {<<>>, Lit("a"), Lit("b")}

\* the lists of at most MaxTags tags
TagLists == UNION {[1..n -> TagWords] : n \in 0..MaxTags}

Quoted(w) == <<"\"">> \o Expand(w) \o <<"\"">>

RECURSIVE EncodeElems(_)
EncodeElems(items) == IF items = <<>> THEN <<>>
                      ELSE IF Len(items) = 1 THEN Quoted(items[1])
                      ELSE Quoted(items[1]) \o <<",">> \o EncodeElems(Tail(items))

\* the JSON text of a list of strings, as the store returns a text column
JsonList(items) == Pack(<<"[">> \o EncodeElems(items) \o <<"]">>)

\* tags strings that are not the JSON text of a list of strings
BlankTags == Rep(" ", 2)
WordTags == Pack(<<"a">>)
CommaTags == Pack(<<"a", ",", "b">>)
OpenListTags == Pack(<<"[", "\"", "a", "\"">>)
NumberTags == Pack(<<"1", "2">>)
JsonStringTags == Pack(<<"\"", "a", "\"">>)
NullTags == Pack(<<"n", "u", "l", "l">>)
MixedListTags == Pack(<<"[", "1", ",", "\"", "a", "\"", "]">>)

OtherTagStrings == {<<>>, BlankTags, WordTags, CommaTags, OpenListTags, NumberTags,
                    JsonStringTags, NullTags, MixedListTags}

TagsValues ==
    {NoTags}
    \cup {[k |-> "list", v |-> items] : items \in TagLists}
    \cup {[k |-> "str", v |-> JsonList(items)] : items \in TagLists}
    \cup {[k |-> "str", v |-> str] : str \in OtherTagStrings}

InitAssemble ==
    /\ provider \in {"openai", "gemini"}
    /\ dry_run = FALSE
    /\ missing_vars = {}
    /\ \E title \in TitleValues, excerpt \in ExcerptValues,
          categories \in CategoriesValues, tags \in TagsValues,
          transcription \in TranscriptionValues :
          LET note == [id |-> 1, title |-> title, excerpt |-> excerpt,
                       categories |-> categories, tags |-> tags,
                       transcription |-> transcription]
          IN  /\ notes = <<note>>
              /\ rows = <<note @@ [status |-> "completed"]>>
    /\ stored = <<NoEmbedding>>
    /\ pc = "validate"
    /\ exit_code = -1
    /\ vpos = 1
    /\ valid_notes = <<>>
    /\ stats = [InitStats EXCEPT !.total_found = 1]
    /\ skipped_notes = <<>>
    /\ error_notes = <<>>
    /\ index = 1
    /\ batch_start = 0
    /\ member = 1
    /\ attempt = 1
    /\ embedding = NoEmbedding
    /\ embeddings = <<>>
    /\ log = <<Event("fetch"), CountEvent(TRUE)>>
    /\ budget = [fail |-> MaxFailures, odd |-> MaxAnomalies]

NextAssemble == ValidateNote

SpecAssemble == InitAssemble /\ [][NextAssemble]_vars

\* ------------------------------------------------------------------------
\* Runs in a row over a table with more pending rows than one fetch takes:
\* rows that every run skips, first in the table, then rows with a text
\* that is accepted.  At most one note is accepted per run, so the delay
\* between two notes or two chunks has no occasion to run.
\* ------------------------------------------------------------------------
\* the kind of row r when the first skipped rows of the table are always
\* skipped: the first too long, the others empty
BacklogKind(r, skipped) ==
    IF r = 1 THEN "long" ELSE IF r <= skipped THEN "empty" ELSE "short"

InitBacklog ==
    /\ provider \in {"openai", "gemini"}
    /\ dry_run = FALSE
    /\ \E skipped \in (BATCH_LIMIT - 1)..BATCH_LIMIT :
          rows = [r \in 1..(BATCH_LIMIT + MaxBacklog) |-> MkRow(r, BacklogKind(r, skipped))]
    /\ stored = [r \in 1..(BATCH_LIMIT + MaxBacklog) |-> NoEmbedding]
    /\ missing_vars = {}
    /\ pc = "init_clients"
    /\ exit_code = -1
    /\ notes = <<>>
    /\ vpos = 1
    /\ valid_notes = <<>>
    /\ stats = InitStats
    /\ skipped_notes = <<>>
    /\ error_notes = <<>>
    /\ index = 1
    /\ batch_start = 0
    /\ member = 1
    /\ attempt = 1
    /\ embedding = NoEmbedding
    /\ embeddings = <<>>
    /\ log = <<>>
    /\ budget = [fail |-> MaxFailures, odd |-> MaxAnomalies]

NextBacklog ==
    \/ InitClients
    \/ Fetch
    \/ CountPending
    \/ ValidateNote
    \/ SingleCall
    \/ SingleBackoff
    \/ SingleUpdate
    \/ BatchCall
    \/ BatchBackoff
    \/ BatchUpdate
    \/ PrintFinalReport
    \/ Rerun

SpecBacklog == InitBacklog /\ [][NextBacklog]_vars

\* ========================================================================
\* Properties
\* ========================================================================
Last(seq) == seq[Len(seq)]

\* the number of elements of seq that satisfy Test
Count(seq, Test(_)) == Len(SelectSeq(seq, Test))

IsCall(e) == e.ev = "call"
IsFailedCall(e) == e.ev = "call" /\ ~e.ok
IsOkCall(e) == e.ev = "call" /\ e.ok
IsUpdate(e) == e.ev = "update"

\* the provider calls of the run, in order
Calls == SelectSeq(log, IsCall)

\* the units (notes on the single path, chunks on the batch path) dispatched so far
Units == {Calls[j].unit : j \in 1..Len(Calls)}

\* the provider calls and backoff sleeps of one unit, in order
UnitEvents(u) == SelectSeq(log, LAMBDA e : e.ev \in {"call", "sleep"} /\ e.unit = u)

\* E is: fail, sleep 2^1, fail, sleep 2^2, ..., fail, sleep 2^n, success
SuccessPattern(E, n) ==
    /\ Len(E) = 2 * n + 1
    /\ \A j \in 1..n : /\ IsFailedCall(E[2 * j - 1])
                       /\ E[2 * j].ev = "sleep"
                       /\ E[2 * j].secs = 2 ^ j
    /\ IsOkCall(E[2 * n + 1])
    /\ \A j \in 1..(n + 1) : E[2 * j - 1].texts = E[1].texts

\* E is: fail, sleep 2^1, ..., fail, sleep 2^(MAX_RETRIES-1), fail
ExhaustPattern(E) ==
    /\ Len(E) = 2 * MAX_RETRIES - 1
    /\ \A j \in 1..MAX_RETRIES :
          /\ IsFailedCall(E[2 * j - 1])
          /\ E[2 * j - 1].texts = E[1].texts
          /\ j < MAX_RETRIES => (E[2 * j].ev = "sleep" /\ E[2 * j].secs = 2 ^ j)

\* C1 (retry, success case): a unit whose provider call succeeds has, up to
\* that call, failed n < MAX_RETRIES times with the same texts and slept n
\* times, for 2^1 .. 2^n seconds in that order; the wrapper returns the
\* provider's result, and the unit is never called again after the success.
C1_RetrySuccess ==
    /\ \A u \in Units :
          LET E == UnitEvents(u) IN
          \A p \in 1..Len(E) :
             IsOkCall(E[p]) => /\ p = Len(E)
                               /\ \E n \in 0..(MAX_RETRIES - 1) : SuccessPattern(E, n)
    /\ (log # <<>> /\ IsOkCall(Last(log))) =>
          LET e == Last(log) IN
          /\ pc \notin {"single_backoff", "batch_backoff"}
          /\ pc = "single_call" => index > e.unit
          /\ pc = "batch_call" => batch_start > e.unit
          /\ IF SupportsBatch
             THEN \E outcome \in {"ok", "dim", "short"} :
                     /\ Len(Response(e.texts, outcome)) = e.returned
                     /\ embeddings = DictZip(e.ids, Response(e.texts, outcome))
             ELSE \E outcome \in {"ok", "dim"} :
                     embedding = Response(e.texts, outcome)[1]

\* C1 witness: a chunk of two notes whose batch call failed twice and then
\* succeeded
C1_Witness ==
    /\ log # <<>>
    /\ IsOkCall(Last(log))
    /\ SuccessPattern(UnitEvents(Last(log).unit), 2)
    /\ SupportsBatch
    /\ Len(Last(log).texts) = 2

\* C2 (retry, exhaustion case): no unit is ever called more than
\* MAX_RETRIES times; a unit that failed MAX_RETRIES times has slept
\* MAX_RETRIES - 1 times, never after the last failure; the wrapper then
\* returns None (None for every id of the chunk) and the run goes on.
C2_RetryExhausted ==
    /\ \A u \in Units :
          LET E == UnitEvents(u) IN
          /\ Count(E, IsCall) <= MAX_RETRIES
          /\ Count(E, IsFailedCall) = MAX_RETRIES => ExhaustPattern(E)
    /\ ( /\ log # <<>>
         /\ IsFailedCall(Last(log))
         /\ Count(UnitEvents(Last(log).unit), IsFailedCall) = MAX_RETRIES ) =>
          LET e == Last(log) IN
          /\ pc \notin {"exited", "single_backoff", "batch_backoff"}
          /\ exit_code # 1
          /\ pc = "single_call" => index > e.unit
          /\ pc = "batch_call" => batch_start > e.unit
          /\ IF SupportsBatch
             THEN /\ DOMAIN embeddings = {e.ids[j] : j \in 1..Len(e.ids)}
                  /\ \A id \in DOMAIN embeddings : embeddings[id] = NoEmbedding
             ELSE embedding = NoEmbedding

\* C2 witness: a single note's wrapper has just given up after MAX_RETRIES failures
C2_Witness ==
    /\ log # <<>>
    /\ IsFailedCall(Last(log))
    /\ ExhaustPattern(UnitEvents(Last(log).unit))
    /\ ~SupportsBatch
    /\ embedding = NoEmbedding
    /\ stats.errors = 1

\* the accepted candidates
M == Len(valid_notes)

\* ceil(a / b)
CeilDiv(a, b) == (a + b - 1) \div b

\* the chunks that were handled to their last member
ChunkFinished(u) == \/ batch_start > u
                    \/ batch_start = u /\ pc \in {"batch_delay", "report", "done"}

\* the members of the chunk that starts at position u (0-based) of valid_notes
ChunkMembers(u) ==
    LET last == IF u + GEMINI_BATCH_SIZE < M THEN u + GEMINI_BATCH_SIZE ELSE M IN
    [j \in 1..(last - u) |-> valid_notes[u + j][1]]

\* C3 (all-or-nothing chunk failure): once a chunk whose batch call failed
\* MAX_RETRIES times has been handled, each of its members has exactly one
\* error summary, with the batch reason, no store update was attempted for
\* it and its embedding is still absent; the provider was called for the chunk
\* MAX_RETRIES times, always with the whole chunk (no per-record call); the
\* errors counter counts every summary and, at the end of the run, processed
\* counts none of the failed members.
C3_ChunkFailureAllOrNothing ==
    SupportsBatch =>
       /\ stats.errors = Len(error_notes)
       /\ \A j \in 1..Len(Calls) :
             Calls[j].ids = [m \in 1..Len(ChunkMembers(Calls[j].unit)) |->
                                ChunkMembers(Calls[j].unit)[m].id]
       /\ pc = "done" => stats.processed + stats.errors = M
       /\ \A u \in Units :
             (ChunkFinished(u) /\ Count(UnitEvents(u), IsFailedCall) = MAX_RETRIES) =>
                /\ Count(UnitEvents(u), IsCall) = MAX_RETRIES
                /\ \A m \in 1..Len(ChunkMembers(u)) :
                      LET note == ChunkMembers(u)[m] IN
                      /\ Count(error_notes, LAMBDA e : e.id = note.id) = 1
                      /\ \A j \in 1..Len(error_notes) :
                            error_notes[j].id = note.id =>
                               error_notes[j].error = "Generazione embedding fallita nel batch"
                      /\ Count(log, LAMBDA e : IsUpdate(e) /\ e.id = note.id) = 0
                      /\ \A r \in DOMAIN rows : rows[r].id = note.id => stored[r] = NoEmbedding

\* C3 witness: a run ended in which a chunk of two members failed for good,
\* in real mode
C3_Witness ==
    /\ pc = "done"
    /\ SupportsBatch
    /\ ~dry_run
    /\ \E u \in Units : /\ Count(UnitEvents(u), IsFailedCall) = MAX_RETRIES
                        /\ Len(ChunkMembers(u)) = 2
    /\ stats.errors >= 2

RECURSIVE UnitsInOrder(_)
\* the units of a sequence of calls, in the order of their first call
UnitsInOrder(calls) ==
    IF calls = <<>> THEN <<>>
    ELSE LET rest == UnitsInOrder(SubSeq(calls, 1, Len(calls) - 1))
             u == calls[Len(calls)].unit
         IN  IF \E j \in 1..Len(rest) : rest[j] = u THEN rest ELSE Append(rest, u)

\* the note ids of the first call of unit u
DispatchedIds(u) ==
    Calls[CHOOSE j \in 1..Len(Calls) :
             /\ Calls[j].unit = u
             /\ \A j2 \in 1..(j - 1) : Calls[j2].unit # u].ids

RECURSIVE Concat(_)
Concat(seqs) == IF seqs = <<>> THEN <<>> ELSE seqs[1] \o Concat(Tail(seqs))

\* the chunks dispatched to the provider, in dispatch order
DispatchedChunks ==
    LET us == UnitsInOrder(Calls) IN [j \in 1..Len(us) |-> DispatchedIds(us[j])]

\* C4 (chunk partition): at the end of a batch run over M >= 1 accepted
\* candidates, ceil(M / GEMINI_BATCH_SIZE) chunks were dispatched; all but
\* the last have GEMINI_BATCH_SIZE members, the last has between 1 and
\* GEMINI_BATCH_SIZE; their concatenation in dispatch order is the list of
\* accepted candidates; and every call of a chunk carries the same members.
C4_ChunkPartition ==
    (pc = "done" /\ SupportsBatch /\ M >= 1) =>
       LET chunks == DispatchedChunks
           n == Len(chunks)
       IN  /\ n = CeilDiv(M, GEMINI_BATCH_SIZE)
           /\ \A j \in 1..(n - 1) : Len(chunks[j]) = GEMINI_BATCH_SIZE
           /\ Len(chunks[n]) >= 1
           /\ Len(chunks[n]) <= GEMINI_BATCH_SIZE
           /\ Concat(chunks) = [j \in 1..M |-> valid_notes[j][1].id]
           /\ \A j \in 1..Len(Calls) : Calls[j].ids = DispatchedIds(Calls[j].unit)

\* C4 witness: a batch run over more candidates than one chunk holds, the
\* last chunk being smaller than the others
C4_Witness ==
    /\ pc = "done"
    /\ SupportsBatch
    /\ M > GEMINI_BATCH_SIZE
    /\ Len(DispatchedChunks) = 2
    /\ Len(DispatchedChunks[2]) < GEMINI_BATCH_SIZE

\* C5 (call counter), as claimed: api_calls is the number of provider
\* invocations made so far, those that raised included.
C5_ApiCallsCountsEveryInvocation == stats.api_calls = Len(Calls)

\* C6 (end-to-end call count without failures): a run in which no provider
\* call failed ends with api_calls = ceil(M / GEMINI_BATCH_SIZE) on the
\* batch path and api_calls = M on the single path.
C6_CallCountWithoutFailures ==
    (pc = "done" /\ Count(log, IsFailedCall) = 0) =>
       stats.api_calls = IF SupportsBatch THEN CeilDiv(M, GEMINI_BATCH_SIZE) ELSE M

\* C6 witness: a batch run without failures over more candidates than one
\* chunk holds, in chunks of GEMINI_BATCH_SIZE and 1
C6_Witness ==
    /\ pc = "done"
    /\ SupportsBatch
    /\ Count(log, IsFailedCall) = 0
    /\ M = GEMINI_BATCH_SIZE + 1
    /\ stats.api_calls = 2
    /\ Len(DispatchedChunks[1]) = GEMINI_BATCH_SIZE
    /\ Len(DispatchedChunks[2]) = 1

\* the assembled text of the j-th fetched note
TextOf(j) == build_text_for_embedding(notes[j])

IsEmptyText(t) == Strip(t) = <<>>
IsTooLongText(t) == Strip(t) # <<>> /\ StrLen(t) > MAX_TEXT_LENGTH
IsAcceptedText(t) == ~IsEmptyText(t) /\ ~IsTooLongText(t)

\* the fetched note with a given id
NoteWithId(id) == notes[CHOOSE j \in 1..Len(notes) : notes[j].id = id]

\* C7 (validation classification): the validation loop takes the fetched
\* notes one by one, from the first to the last, and each step gives the
\* note exactly one outcome: skipped_empty + 1 iff its text is empty after
\* trimming; skipped_too_long + 1 iff its text is non-empty and longer than
\* MAX_TEXT_LENGTH; appended to the accepted candidates, with its text,
\* otherwise (a text of exactly MAX_TEXT_LENGTH characters included); no
\* other counter moves, and no other step touches these three.
C7_Classification ==
    /\ [](pc \notin {"init_clients", "fetch", "count", "validate", "exited"}
             => vpos = Len(notes) + 1 \/ notes = <<>>)
    /\ [][ IF pc = "validate"
           THEN LET t == TextOf(vpos) IN
                /\ vpos <= Len(notes)
                /\ vpos' = vpos + 1
                /\ stats'.skipped_empty =
                      stats.skipped_empty + (IF IsEmptyText(t) THEN 1 ELSE 0)
                /\ stats'.skipped_too_long =
                      stats.skipped_too_long + (IF IsTooLongText(t) THEN 1 ELSE 0)
                /\ valid_notes' = IF IsAcceptedText(t)
                                  THEN Append(valid_notes, <<notes[vpos], t>>)
                                  ELSE valid_notes
                /\ IsAcceptedText(t) => StrLen(t) <= MAX_TEXT_LENGTH
                /\ \A f \in {"total_found", "processed", "errors", "api_calls"} :
                      stats'[f] = stats[f]
           ELSE /\ vpos' = vpos
                /\ valid_notes' = valid_notes
                /\ stats'.skipped_empty = stats.skipped_empty
                /\ stats'.skipped_too_long = stats.skipped_too_long ]_vars

\* C7 witness: the validation is over, having met an empty text, a text of
\* MAX_TEXT_LENGTH + 1 characters, and a text of exactly MAX_TEXT_LENGTH
\* characters, which was accepted
C7_Witness ==
    /\ pc # "validate"
    /\ Len(notes) = 3
    /\ vpos = 4
    /\ stats.skipped_empty = 1
    /\ stats.skipped_too_long = 1
    /\ \E j \in 1..3 : StrLen(TextOf(j)) = MAX_TEXT_LENGTH + 1
    /\ Len(valid_notes) = 1
    /\ StrLen(valid_notes[1][2]) = MAX_TEXT_LENGTH

\* C8 (skipped records never reach the provider): a provider call, first
\* attempt or retry, single or batch, is made only when every fetched note
\* has been classified, and each of its texts is the text of a fetched note
\* classified Accepted (non-empty, at most MAX_TEXT_LENGTH long); a run
\* whose fetched notes are all skipped ends without a provider call.
C8_SkippedNeverDispatched ==
    /\ [](pc \in {"init_clients", "fetch", "count", "validate"} => Calls = <<>>)
    /\ []((pc = "done" /\ valid_notes = <<>>) => Calls = <<>>)
    /\ [](pc = "done" => Len(valid_notes) =
                            Cardinality({j \in 1..Len(notes) : IsAcceptedText(TextOf(j))}))
    /\ [][ (log' # log /\ IsCall(Last(log'))) =>
              LET c == Last(log') IN
              /\ vpos = Len(notes) + 1
              /\ Len(c.ids) = Len(c.texts)
              /\ \A m \in 1..Len(c.texts) :
                    /\ IsAcceptedText(c.texts[m])
                    /\ \E j \in 1..Len(notes) : notes[j].id = c.ids[m]
                    /\ c.texts[m] = build_text_for_embedding(NoteWithId(c.ids[m])) ]_vars

\* C8 witness: a run that skipped an empty note and a too long one, and
\* called the provider for the third, with a retry
C8_Witness ==
    /\ pc = "done"
    /\ stats.skipped_empty = 1
    /\ stats.skipped_too_long = 1
    /\ Len(Calls) >= 2
    /\ Count(log, IsFailedCall) >= 1

\* C9 (itemized skip list), as claimed: at report time the skipped list has
\* one entry per skipped record, empty or too long.
C9_SkippedListCountsAllSkips ==
    pc = "done" => Len(skipped_notes) = stats.skipped_empty + stats.skipped_too_long

\* C9, amended: a validation step appends to the skipped list exactly when
\* the note's text is too long, the summary carrying the note's id, its
\* display title and the measured length of its text; a note skipped as
\* empty is counted only; no other step touches the list; so the length of
\* the list is skipped_too_long.
C9_SkippedListTooLongOnly ==
    /\ [](Len(skipped_notes) = stats.skipped_too_long)
    /\ [][ skipped_notes' =
              IF pc = "validate" /\ IsTooLongText(TextOf(vpos))
              THEN Append(skipped_notes,
                          [id |-> notes[vpos].id,
                           title |-> IF notes[vpos].title \in {None, <<>>}
                                     THEN Lit("Senza titolo") ELSE notes[vpos].title,
                           text_length |-> StrLen(TextOf(vpos))])
              ELSE skipped_notes ]_vars

\* C9 witness: a run ended that skipped one note as empty and one as too
\* long, the list holding the latter alone
C9_Witness ==
    /\ pc = "done"
    /\ stats.skipped_empty = 1
    /\ stats.skipped_too_long = 1
    /\ Len(skipped_notes) = 1
    /\ skipped_notes[1].text_length = MAX_TEXT_LENGTH + 1

RECURSIVE SumReturned(_)
\* the number of vectors the calls returned
SumReturned(calls) ==
    IF calls = <<>> THEN 0 ELSE calls[1].returned + SumReturned(Tail(calls))

\* the ids of the notes a vector was generated for
IdsWithVector ==
    UNION {{Calls[c].ids[m] : m \in 1..Calls[c].returned} : c \in 1..Len(Calls)}

\* C10 (simulate-only mode): in a dry run the store's update is never
\* invoked and no row's embedding changes; at the end of the run processed
\* is the number of notes a vector was generated for, and none of these
\* notes has an error summary.
C10_DryRun ==
    /\ [](dry_run => /\ Count(log, IsUpdate) = 0
                     /\ pc = "done" =>
                           /\ stats.processed = SumReturned(Calls)
                           /\ stats.processed = Cardinality(IdsWithVector)
                           /\ \A j \in 1..Len(error_notes) :
                                 error_notes[j].id \notin IdsWithVector)
    /\ [][dry_run => stored' = stored]_vars

\* C10 witness: a dry run ended with two notes processed and one in error
C10_Witness ==
    /\ pc = "done"
    /\ dry_run
    /\ stats.processed = 2
    /\ stats.errors = 1
    /\ \A r \in DOMAIN stored : stored[r] = NoEmbedding

\* the store updates issued for the note id, in order
UpdatesOf(id) == SelectSeq(log, LAMBDA e : IsUpdate(e) /\ e.id = id)

\* the vectors the provider returned for the note id (by position in the call)
VectorsFor(id) ==
    UNION {{Vector(Calls[c].texts[m], d) :
               m \in {m \in 1..Calls[c].returned : Calls[c].ids[m] = id},
               d \in {EXPECTED_VECTOR_DIMENSION, OtherDimension}} :
           c \in {c \in 1..Len(Calls) : Calls[c].ok}}

\* C11 (persistence failure): in a real run the store update of a note is
\* issued at most once, and exactly once, with the generated vector, by the
\* end of the run for every note a vector was generated for; an update
\* that returns no row or raises leaves the embedding column as it was,
\* adds one to errors and one summary with the database reason to the error
\* list and nothing to processed, while a confirmed one adds one to
\* processed only; after a failed update the run still dispatches every
\* remaining accepted note and ends with the report.
C11_PersistenceFailure ==
    /\ [](~dry_run =>
            /\ \A j \in 1..Len(notes) : Len(UpdatesOf(notes[j].id)) <= 1
            /\ pc = "done" =>
                  /\ \A id \in IdsWithVector :
                        /\ Len(UpdatesOf(id)) = 1
                        /\ UpdatesOf(id)[1].vec \in VectorsFor(id)
                  /\ \A j \in 1..Len(valid_notes) :
                        \E c \in 1..Len(Calls) :
                           \E m \in 1..Len(Calls[c].ids) :
                              Calls[c].ids[m] = valid_notes[j][1].id)
    /\ []((\E p \in 1..Len(log) : IsUpdate(log[p])) => pc # "exited")
    /\ [][ (log' # log /\ IsUpdate(Last(log'))) =>
              LET e == Last(log') IN
              IF e.res = "ok"
              THEN /\ stats' = [stats EXCEPT !.processed = @ + 1]
                   /\ error_notes' = error_notes
                   /\ stored'[e.id] = e.vec
              ELSE /\ stats' = [stats EXCEPT !.errors = @ + 1]
                   /\ error_notes' =
                         Append(error_notes,
                                [id |-> e.id,
                                 title |-> DisplayTitle(NoteWithId(e.id)),
                                 error |-> "Aggiornamento database fallito"])
                   /\ stored' = stored ]_vars

\* C11 witness: a real run ended after a store update that failed, followed
\* by the provider call and the confirmed update of a later note
C11_Witness ==
    /\ pc = "done"
    /\ ~dry_run
    /\ stats.errors = 1
    /\ \E p \in 1..Len(log) :
          /\ IsUpdate(log[p])
          /\ log[p].res \in {"empty", "raise"}
          /\ \E q \in (p + 1)..Len(log) : IsOkCall(log[q])
          /\ \E q \in (p + 1)..Len(log) : IsUpdate(log[q]) /\ log[q].res = "ok"

\* every unit of the run: the positions of valid_notes on the single path,
\* the chunks' first positions on the batch path
AllUnits == IF SupportsBatch
            THEN {u \in 0..(M - 1) : u % GEMINI_BATCH_SIZE = 0}
            ELSE 1..M

\* the unit was handled to its end
UnitDone(u) == IF SupportsBatch THEN ChunkFinished(u)
               ELSE \/ index > u
                    \/ index = u /\ pc \in {"single_delay", "report", "done"}

\* the provider failed for the unit on every attempt
Exhausted(u) == Count(UnitEvents(u), IsFailedCall) = MAX_RETRIES

\* C12 (generation failure is recoverable): for a unit whose provider call
\* failed MAX_RETRIES times, no store update is ever issued for any of its
\* notes and their embeddings stay absent; once the unit is handled each of
\* its notes has exactly one error summary, with the generation reason of
\* the path; the run is not aborted, and at its end every unit, the later
\* ones included, was dispatched to the provider.
C12_GenerationFailureRecoverable ==
    /\ pc = "exited" => Calls = <<>>
    /\ \A u \in Units :
          Exhausted(u) =>
             /\ u \in AllUnits
             /\ \A m \in 1..Len(DispatchedIds(u)) :
                   LET id == DispatchedIds(u)[m] IN
                   /\ UpdatesOf(id) = <<>>
                   /\ stored[id] = NoEmbedding
                   /\ UnitDone(u) =>
                         /\ Count(error_notes, LAMBDA e : e.id = id) = 1
                         /\ \A j \in 1..Len(error_notes) :
                               error_notes[j].id = id =>
                                  error_notes[j].error =
                                     IF SupportsBatch
                                     THEN "Generazione embedding fallita nel batch"
                                     ELSE "Generazione embedding fallita"
             /\ pc = "done" => \A v \in AllUnits : v \in Units

\* C12 witness: a run ended in which the first unit failed for good and a
\* later unit was called and its note written
C12_Witness ==
    /\ pc = "done"
    /\ ~dry_run
    /\ \E u \in Units :
          /\ Exhausted(u)
          /\ \E v \in Units : v > u /\ Count(UnitEvents(v), IsOkCall) = 1
    /\ stats.processed >= 1

\* the run that left the mark e was fully successful: a real run whose fetch
\* was not cut by BATCH_LIMIT and whose fetched notes were all written
FullySuccessful(e) ==
    /\ ~e.dry_run
    /\ e.stats.total_found < BATCH_LIMIT
    /\ e.stats.processed = e.stats.total_found
    /\ e.stats.errors = 0
    /\ e.stats.skipped_empty = 0
    /\ e.stats.skipped_too_long = 0

C14_ConfigErrorIsFatal ==
    /\ [](missing_vars \subseteq RequiredVars)
    /\ [](missing_vars # {} =>
             /\ pc = "exited"
             /\ exit_code = 1
             /\ log = <<>>
             /\ notes = <<>>
             /\ valid_notes = <<>>
             /\ stats = InitStats)
    /\ [][missing_vars' # {} => stored' = stored]_vars

\* C14 witness: the run exited for the missing key of the selected provider
C14_Witness ==
    /\ pc = "exited"
    /\ exit_code = 1
    /\ provider = "gemini"
    /\ missing_vars = {"GEMINI_API_KEY"}

IsDelay(e) == e.ev = "delay"

\* C15 (inter-call delay, single-call path), as claimed: a run that handled
\* M >= 1 accepted candidates one at a time has slept DELAY_BETWEEN_CALLS
\* M - 1 times, whatever the candidates' outcomes, and between the calls of
\* two consecutive candidates there is one such delay.
C15_SingleDelayAfterEveryCandidate ==
    ~SupportsBatch =>
       /\ (pc = "done" /\ M >= 1) => Count(log, IsDelay) = M - 1
       /\ \A p \in 1..Len(log) : \A q \in (p + 1)..Len(log) :
             (IsCall(log[p]) /\ IsCall(log[q]) /\ log[q].unit = log[p].unit + 1) =>
                \E d \in (p + 1)..(q - 1) : IsDelay(log[d])

\* C16 (inter-chunk delay, batch path): a batch run over M >= 1 accepted
\* candidates, K = ceil(M / GEMINI_BATCH_SIZE) chunks, has slept
\* DELAY_BETWEEN_CALLS K - 1 times at its end, whatever the chunks'
\* outcomes; there is exactly one delay between the last call of a chunk
\* and the first call of the next, and none after the last chunk's call.
\* (The log only grows, so the calls are compared as they are logged: the
\* newest event with every earlier one.)
C16_BatchDelayBetweenChunks ==
    SupportsBatch =>
       /\ Count(log, IsDelay) <= CeilDiv(M, GEMINI_BATCH_SIZE)
       /\ (pc = "done" /\ M >= 1) =>
             /\ Count(log, IsDelay) = CeilDiv(M, GEMINI_BATCH_SIZE) - 1
             /\ \A d \in 1..Len(log) :
                   IsDelay(log[d]) => \E q \in (d + 1)..Len(log) : IsCall(log[q])
       /\ \A p \in 1..Len(log) :
             LET q == Len(log) IN
             (IsCall(log[p]) /\ IsCall(log[q]) /\ log[q].unit # log[p].unit) =>
                /\ log[q].unit > log[p].unit
                /\ Count(SubSeq(log, p, q), IsDelay) =
                      (log[q].unit - log[p].unit) \div GEMINI_BATCH_SIZE

\* C16 witness: a batch run of two chunks ended, the first chunk having
\* failed for good, with one delay
C16_Witness ==
    /\ pc = "done"
    /\ SupportsBatch
    /\ CeilDiv(M, GEMINI_BATCH_SIZE) = 2
    /\ Exhausted(0)
    /\ Count(log, IsDelay) = 1

\* the position of the note id in the fetched list
FetchedPos(id) == CHOOSE j \in 1..Len(notes) : notes[j].id = id

\* the note ids of the sequence ids are in fetched order, none twice
InFetchedOrder(ids) ==
    \A j \in 1..(Len(ids) - 1) : FetchedPos(ids[j]) < FetchedPos(ids[j + 1])

\* the store updates of the run, in order
Updates == SelectSeq(log, IsUpdate)

\* the ids the unit u of valid_notes consists of, in the order of valid_notes
UnitNoteIds(u) ==
    IF SupportsBatch
    THEN [m \in 1..Len(ChunkMembers(u)) |-> ChunkMembers(u)[m].id]
    ELSE <<valid_notes[u][1].id>>

\* C17 (processing order): the accepted candidates are in the order they
\* were fetched; the provider calls go through the units in increasing
\* position, never back to an earlier unit, each call carrying the unit's
\* notes in the order of the accepted list; the store updates, the error
\* summaries, and the two together with the processed notes, follow the
\* fetched order, no note appearing twice. (The log only grows, so calls and
\* updates are compared as they are logged: the newest event with every
\* earlier one.)
C17_ProcessingOrder ==
    /\ InFetchedOrder([j \in 1..M |-> valid_notes[j][1].id])
    /\ \A c \in 1..Len(Calls) :
          /\ Calls[c].ids = UnitNoteIds(Calls[c].unit)
          /\ c < Len(Calls) => Calls[c].unit <= Calls[c + 1].unit
    /\ InFetchedOrder([j \in 1..Len(Updates) |-> Updates[j].id])
    /\ InFetchedOrder([j \in 1..Len(error_notes) |-> error_notes[j].id])
    /\ \A p \in 1..(Len(log) - 1) :
          LET q == Len(log) IN
          /\ (IsUpdate(log[p]) /\ IsCall(log[q])) =>
                \A m \in 1..Len(log[q].ids) :
                   FetchedPos(log[p].id) <= FetchedPos(log[q].ids[m])
          /\ (IsCall(log[p]) /\ IsUpdate(log[q])) =>
                FetchedPos(log[p].ids[1]) <= FetchedPos(log[q].id)

\* C17 witness: a batch run of three candidates and two chunks ended, with
\* two store updates and one error summary
C17_Witness ==
    /\ pc = "done"
    /\ SupportsBatch
    /\ M = 3
    /\ Len(Updates) >= 2
    /\ Len(error_notes) >= 1

\* the largest element of a non-empty set of numbers
Max(S) == CHOOSE x \in S : \A y \in S : y <= x

\* C18 (positional correspondence in batch mode), as claimed: every store
\* update issued for the member at position i of a chunk carries the vector
\* the provider returned at position i, that is the vector of the member's
\* own text, whatever the members' ids.
C18_PositionalPairing ==
    [][ (pc = "batch_update" /\ log' # log /\ IsUpdate(Last(log'))) =>
           Last(log').vec.of = BatchNotes[member][2] ]_vars

\* C18, amended: the pairing goes through a dictionary keyed by note id.
\* After a batch call that returned r vectors, the member at position i is
\* updated, in a real run, with the vector at the position of the last
\* member among the first r that has the same id, and is not updated when
\* there is none; in a chunk whose members have distinct ids that is the
\* vector at position i.
C18_PairingByIdentity ==
    [][ pc = "batch_update" =>
           LET chunk == BatchNotes
               id == chunk[member][1].id
               call == Last(Calls)
               same == {j \in 1..call.returned : chunk[j][1].id = id}
               distinct == \A j1, j2 \in 1..Len(chunk) :
                              chunk[j1][1].id = chunk[j2][1].id => j1 = j2
           IN  IF same = {} \/ dry_run
               THEN log' = log /\ stored' = stored
               ELSE /\ log' = Append(log, Last(log'))
                    /\ IsUpdate(Last(log'))
                    /\ Last(log').id = id
                    /\ Last(log').vec.of = chunk[Max(same)][2]
                    /\ distinct => Last(log').vec.of = chunk[member][2]
                    /\ Last(log').res = "ok" =>
                          \A r \in DOMAIN rows :
                             rows[r].id = id => stored'[r] = Last(log').vec ]_vars

\* C18 witness: a real run over two notes with the same id ended, both
\* updates having carried the vector of the second note's text
C18_Witness ==
    /\ pc = "done"
    /\ ~dry_run
    /\ M = 2
    /\ valid_notes[1][1].id = valid_notes[2][1].id
    /\ valid_notes[1][2] # valid_notes[2][2]
    /\ Len(Updates) = 2
    /\ Updates[1].vec.of = valid_notes[2][2]
    /\ Updates[2].vec.of = valid_notes[2][2]

\* the vector has a length other than EXPECTED_VECTOR_DIMENSION
Mismatched(vec) == vec # NoEmbedding /\ vec.dim # EXPECTED_VECTOR_DIMENSION

\* the note and the vector of the update step the run is at
CurrentNote == IF pc = "single_update" THEN valid_notes[index][1]
               ELSE BatchNotes[member][1]
CurrentVector == IF pc = "single_update" THEN embedding
                 ELSE DictGet(embeddings, CurrentNote.id)

\* C19 (dimension mismatch is not a rejection): a provider call that
\* returns a vector of another length than EXPECTED_VECTOR_DIMENSION is a
\* successful call: it is counted in api_calls, no error is recorded, the
\* attempt is not repeated and the run goes on to the update; the update of
\* such a vector is issued with that vector and accounted like any other:
\* in a dry run processed + 1; in a real run one store update which, when
\* confirmed, writes the vector and adds one to processed only.
C19_DimensionMismatchAccepted ==
    /\ [][ (/\ pc \in {"single_call", "batch_call"}
            /\ budget'.fail = budget.fail
            /\ IF pc = "single_call" THEN Mismatched(embedding')
               ELSE \E id \in DOMAIN embeddings' : Mismatched(embeddings'[id])) =>
              /\ IsOkCall(Last(log'))
              /\ stats' = [stats EXCEPT !.api_calls = @ + 1]
              /\ error_notes' = error_notes
              /\ attempt' = attempt
              /\ pc' = IF pc = "single_call" THEN "single_update" ELSE "batch_update" ]_vars
    /\ [][ (pc \in {"single_update", "batch_update"} /\ Mismatched(CurrentVector)) =>
              IF dry_run
              THEN /\ log' = log
                   /\ stats' = [stats EXCEPT !.processed = @ + 1]
                   /\ error_notes' = error_notes
              ELSE /\ log' = Append(log, Last(log'))
                   /\ IsUpdate(Last(log'))
                   /\ Last(log').id = CurrentNote.id
                   /\ Last(log').vec = CurrentVector
                   /\ Last(log').res = "ok" =>
                         /\ stored'[CurrentNote.id] = CurrentVector
                         /\ stats' = [stats EXCEPT !.processed = @ + 1]
                         /\ error_notes' = error_notes ]_vars

\* C19 witness: a real run ended without any error, one of the notes being
\* stored with a vector of another dimension, returned on the first attempt
C19_Witness ==
    /\ pc = "done"
    /\ ~dry_run
    /\ stats.errors = 0
    /\ stats.processed >= 2
    /\ Count(log, IsFailedCall) = 0
    /\ \E r \in DOMAIN stored : /\ stored[r].dim = OtherDimension
                                /\ stored[r].of = build_text_for_embedding(rows[r])

\* C20 (unprotected read-then-act): the update is by id alone. A confirmed
\* store update leaves the note's embedding equal to the vector of this
\* run, whatever the column held; so when another writer has set the
\* embedding of a fetched note after this run's fetch, the run still issues
\* its update for the note (if it has a vector for it) and, once the update
\* is confirmed, the other writer's embedding is gone; only a failed update
\* leaves it in place.
C20_UpdateOverwrites ==
    /\ [][ (log' # log /\ IsUpdate(Last(log')) /\ Last(log').res = "ok") =>
              stored'[Last(log').id] = Last(log').vec ]_vars
    /\ [](\A p \in 1..Len(log) :
             IsOther(log[p]) =>
                /\ \E j \in 1..Len(notes) : notes[j].id = log[p].id
                /\ \E f \in 1..(p - 1) : log[f].ev = "fetch"
                /\ (pc = "done" /\ log[p].id \in IdsWithVector) =>
                      \E q \in (p + 1)..Len(log) :
                         /\ IsUpdate(log[q])
                         /\ log[q].id = log[p].id
                         /\ log[q].vec # OtherVector
                         /\ stored[log[p].id] = IF log[q].res = "ok" THEN log[q].vec
                                                ELSE OtherVector)

\* C20 witness: a run ended in which another writer stored an embedding for
\* a fetched note and the run's confirmed update replaced it
C20_Witness ==
    /\ pc = "done"
    /\ \E p \in 1..(Len(log) - 1) :
          /\ IsOther(log[p])
          /\ IsUpdate(log[p + 1])
          /\ log[p + 1].id = log[p].id
          /\ log[p + 1].res = "ok"
          /\ stored[log[p].id] = log[p + 1].vec
          /\ stored[log[p].id] # OtherVector

IsReport(e) == e.ev = "report"
IsFetch(e) == e.ev = "fetch"

\* the fetch query has returned
Fetched == \E p \in 1..Len(log) : IsFetch(log[p])

\* what the run has done so far, as a number: every step adds to it
Progress == Len(log) + vpos + stats.processed + stats.errors
            + (CASE pc = "init_clients" -> 0 [] pc = "fetch" -> 1 [] OTHER -> 2)

\* more than a run over the table can do
WorkBound == 6 + Len(rows) * (2 * MAX_RETRIES + 4)

\* C21 (report on every path): once the fetch has succeeded the run does
\* not exit without a report; it ends with the report printed exactly once,
\* as the last thing it does: no provider call, store update or sleep
\* comes after the report and no step follows the end of the run. The run
\* does get there: until the end a next step is always possible (in the
\* validation loop, the next note is there to be classified), and every
\* step adds to a bounded measure of the work done. This holds when no note
\* was fetched, when none was accepted and when candidates were dispatched,
\* whatever failed on the way.
C21_ReportOnEveryPath ==
    /\ [](Fetched => pc # "exited")
    /\ [](Count(log, IsReport) <= 1)
    /\ [](pc = "done" <=> Count(log, IsReport) = 1)
    /\ [](pc = "done" => /\ IsReport(Last(log))
                         /\ Fetched
                         /\ exit_code = 0)
    /\ [](pc = "report" => \/ notes = <<>>
                           \/ notes # <<>> /\ vpos = Len(notes) + 1 /\ valid_notes = <<>>
                           \/ valid_notes # <<>> /\ stats.processed + stats.errors = M)
    /\ [](pc = "validate" => vpos \in 1..Len(notes))
    /\ []((Fetched /\ pc \notin {"done", "validate"}) => ENABLED Next)
    /\ [](Progress <= WorkBound)
    /\ [][pc # "done" /\ Progress' > Progress]_vars

\* C21 witness: the report printed at the end of a run that dispatched
\* candidates, with a unit failed for good and a failed store update
C21_Witness ==
    /\ pc = "done"
    /\ IsReport(Last(log))
    /\ \E u \in Units : Exhausted(u)
    /\ \E p \in 1..Len(log) : IsUpdate(log[p]) /\ log[p].res # "ok"

IsCritical(e) == e.ev = "critical"

\* C22 (exit codes): the process has an exit code exactly when it is over.
\* A run whose report was printed exits with 0, also when it fetched nothing
\* and when every note it fetched ended as an error or a skip. A run that
\* ended any other way printed no report and exits with 1: for a missing
\* variable, for a fetch query that raised (the fetch step that does not
\* return the notes), and for an exception nothing caught, which main()
\* reports as critical.
C22_ExitCodes ==
    /\ [](exit_code \in {-1, 0, 1})
    /\ [](exit_code = -1 <=> pc \notin {"done", "exited"})
    /\ [](pc = "done" <=> exit_code = 0)
    /\ [](Count(log, IsReport) = 1 => exit_code = 0)
    /\ [](pc = "exited" => exit_code = 1 /\ Count(log, IsReport) = 0)
    /\ [](missing_vars # {} => exit_code = 1)
    /\ []((\E p \in 1..Len(log) : IsCritical(log[p])) => exit_code = 1)
    /\ [][(pc = "fetch" /\ ~Fetched') => exit_code' = 1]_vars

\* C22 witness: the report was printed and the exit code is 0 after a run in
\* which a note was skipped, another ended as an error, and none was written
C22_Witness ==
    /\ pc = "done"
    /\ exit_code = 0
    /\ stats.total_found >= 2
    /\ stats.processed = 0
    /\ stats.errors >= 1
    /\ stats.skipped_empty + stats.skipped_too_long >= 1

\* ------------------------------------------------------------------------
\* The assembled text, read back
\* ------------------------------------------------------------------------
RECURSIVE SplitOn(_, _)
\* text.split(" | "), cur being the segment read so far
SplitOn(s, cur) ==
    IF s = <<>> THEN <<cur>>
    ELSE IF Len(s) >= 3 /\ SubSeq(s, 1, 3) = Separator
         THEN <<cur>> \o SplitOn(SubSeq(s, 4, Len(s)), <<>>)
    ELSE SplitOn(Tail(s), Append(cur, s[1]))

\* the segments of an assembled text
Segments(text) == IF text = <<>> THEN <<>> ELSE SplitOn(text, <<>>)

LabelNames == <<"Title", "Excerpt", "Category", "Tags", "Content">>

\* the position in LabelNames of the label a segment starts with, 0 for none
LabelOf(seg) ==
    IF \E n \in 1..5 : Len(seg) >= 3 /\ SubSeq(seg, 1, 3) = Label(LabelNames[n])
    THEN CHOOSE n \in 1..5 : SubSeq(seg, 1, 3) = Label(LabelNames[n])
    ELSE 0

\* what follows the label
ValueOf(seg) == SubSeq(seg, 4, Len(seg))

\* the segments of text with label n
WithLabel(text, n) == SelectSeq(Segments(text), LAMBDA seg : LabelOf(seg) = n)

FieldNames == <<"title", "excerpt", "categories", "tags", "transcription">>

\* blank: absent, empty, or nothing left after trimming
BlankText(v) == Strip(OrEmpty(v)) = <<>>

\* a tags value that is absent, an empty list, or a string with nothing
\* left after trimming
BlankTagsValue(tags) ==
    \/ tags.k = "none"
    \/ tags.k = "list" /\ tags.v = <<>>
    \/ tags.k = "str" /\ Strip(tags.v) = <<>>

BlankField(note, n) ==
    IF FieldNames[n] = "tags" THEN BlankTagsValue(note.tags)
    ELSE BlankText(note[FieldNames[n]])

\* the notes the validation loop has assembled and classified so far
Validated == {notes[j] : j \in 1..(vpos - 1)}

\* the (key, value) pairs of a note's five fields, in the order p
Items(note, p) == [i \in 1..5 |-> <<FieldNames[p[i]], note[FieldNames[p[i]]]>>]

\* dict.get(key) on the dictionary made of the pairs
NoteGet(items, key) ==
    LET hits == SelectSeq(items, LAMBDA kv : kv[1] = key) IN
    hits[Len(hits)][2]

\* the note the assembler reads from the dictionary made of the pairs
NoteOf(id, items) ==
    [id |-> id, title |-> NoteGet(items, "title"), excerpt |-> NoteGet(items, "excerpt"),
     categories |-> NoteGet(items, "categories"), tags |-> NoteGet(items, "tags"),
     transcription |-> NoteGet(items, "transcription")]

KeyOrders == Permutations(1..5)

\* the order, separators and segments of the text assembled for a note:
\* every segment starts with a label, the labels come in the order Title,
\* Excerpt, Category, Tags, Content with none twice, joining the segments
\* with " | " gives the text back (so no separator leads, trails or is
\* doubled), a non-blank plain field has its segment with the trimmed value,
\* and the text read from the note's keys in any order is the same
OrderAndSeparators(note) ==
    LET text == build_text_for_embedding(note)
        segs == Segments(text)
    IN  /\ \A j \in 1..Len(segs) : LabelOf(segs[j]) # 0
        /\ \A j, k \in 1..Len(segs) : j < k => LabelOf(segs[j]) < LabelOf(segs[k])
        /\ Join(Separator, segs) = text
        /\ \A n \in {1, 2, 3, 5} :
              ~BlankField(note, n) =>
                 WithLabel(text, n) =
                    <<Label(LabelNames[n]) \o Strip(note[FieldNames[n]])>>
        /\ \A p \in KeyOrders :
              build_text_for_embedding(NoteOf(note.id, Items(note, p))) = text

\* a note whose only non-blank field is the transcription
ContentOnly(note) ==
    /\ \A n \in 1..4 : BlankField(note, n)
    /\ ~BlankField(note, 5)

\* C23 (assembler order and separators): for every note the validation has
\* assembled, the text is the present segments in the order Title, Excerpt,
\* Category, Tags, Content joined by " | ", whatever the order of the note's
\* keys, with no leading, trailing or doubled separator; and a note whose
\* only non-blank field is the transcription assembles to exactly
\* "Content: " followed by the trimmed transcription.
C23_AssemblerOrderAndSeparators ==
    \A note \in Validated :
       /\ OrderAndSeparators(note)
       /\ ContentOnly(note) =>
             build_text_for_embedding(note) =
                Label("Content") \o Strip(note.transcription)

\* the order and separators alone
C23_OrderAndSeparatorsHold == \A note \in Validated : OrderAndSeparators(note)

\* a blank field n of the note has no segment in the note's text
NoLabelWhenBlank(note, n) ==
    BlankField(note, n) => WithLabel(build_text_for_embedding(note), n) = <<>>

\* C24 (no empty label): for every note the validation has assembled and
\* each of the five fields, a field that is empty or whitespace-only after
\* trimming has no segment with its label in the text; and a note whose five
\* fields are all blank assembles to the empty string and is classified as
\* skipped-empty.
C24_NoEmptyLabel ==
    \A note \in Validated :
       /\ \A n \in 1..5 : NoLabelWhenBlank(note, n)
       /\ (\A n \in 1..5 : BlankField(note, n)) =>
             /\ build_text_for_embedding(note) = <<>>
             /\ Classify(build_text_for_embedding(note)) = "empty"

\* the same for the four plain fields alone, the tags left out
C24_PlainFieldsHold ==
    \A note \in Validated :
       /\ \A n \in {1, 2, 3, 5} : NoLabelWhenBlank(note, n)
       /\ (\A n \in {1, 2, 3, 5} : BlankField(note, n)) /\ note.tags.k = "none" =>
             /\ build_text_for_embedding(note) = <<>>
             /\ Classify(build_text_for_embedding(note)) = "empty"

\* the Tags segments of the note's text
TagsSegments(note) == WithLabel(build_text_for_embedding(note), 4)

\* a tags string that is the JSON text of a non-empty list of strings gives
\* one Tags segment, the elements joined by ", "
ListEncodingRendered(note) ==
    \A items \in TagLists \ {<<>>} :
       (note.tags.k = "str" /\ note.tags.v = JsonList(items)) =>
          TagsSegments(note) = <<Label("Tags") \o Join(TagSeparator, items)>>

\* a non-blank tags string that json.loads rejects gives one Tags segment
\* with the string itself
UnparseableKept(note) ==
    (/\ note.tags.k = "str"
     /\ Strip(note.tags.v) # <<>>
     /\ ~JsonLoads(Expand(note.tags.v)).ok) =>
        TagsSegments(note) = <<Label("Tags") \o note.tags.v>>

\* a non-blank tags string that json.loads reads as something that is not
\* a list gives one Tags segment with the string itself
NonListKept(note) ==
    (/\ note.tags.k = "str"
     /\ Strip(note.tags.v) # <<>>
     /\ JsonLoads(Expand(note.tags.v)).ok
     /\ ~JsonLoads(Expand(note.tags.v)).list) =>
        TagsSegments(note) = <<Label("Tags") \o note.tags.v>>

\* C25 (tags rendering): for every note the validation has assembled, a tags
\* string that encodes a list of strings is rendered as one Tags segment
\* with the elements joined by ", ", and any other non-blank tags string,
\* unparseable or parseable to something that is not a list, is rendered as
\* one Tags segment holding the string itself, never dropped.
C25_TagsRendering ==
    \A note \in Validated :
       /\ ListEncodingRendered(note)
       /\ UnparseableKept(note)
       /\ NonListKept(note)

\* the same without the strings that json.loads reads as something that is
\* not a list
C25_ListsAndUnparseableHold ==
    \A note \in Validated : ListEncodingRendered(note) /\ UnparseableKept(note)

IsCount(e) == e.ev = "count"

\* the count query of this run raised
CountFailed == \E p \in 1..Len(log) : IsCount(log[p]) /\ ~log[p].ok

\* C26 (the count query is best-effort): the count step, whether the query
\* returned or raised, goes on to the validation and changes nothing the
\* rest of the run reads: not the fetched notes, the counters, the lists,
\* the table or the exit code; the outcome is only noted. After a count
\* query that raised the run never exits early, and at its report every
\* fetched note has been validated, every accepted note dispatched, and the
\* counters add up as in any other run.
C26_CountIsBestEffort ==
    /\ [][pc = "count" =>
            /\ pc' = "validate"
            /\ \E ok \in BOOLEAN : log' = Append(log, CountEvent(ok))
            /\ UNCHANGED <<provider, dry_run, missing_vars, rows, stored, exit_code,
                           notes, vpos, valid_notes, stats, skipped_notes,
                           error_notes, index, batch_start, member, attempt,
                           embedding, embeddings>>]_vars
    /\ [](Count(log, IsCount) <= 1)
    /\ [](CountFailed => pc # "exited" /\ exit_code # 1)
    /\ []((CountFailed /\ pc \in {"report", "done"}) =>
             /\ vpos = Len(notes) + 1
             /\ stats.total_found = Len(notes)
             /\ stats.skipped_empty + stats.skipped_too_long + M = Len(notes)
             /\ stats.processed + stats.errors = M
             /\ Len(skipped_notes) = stats.skipped_too_long
             /\ Len(error_notes) = stats.errors)

\* C26 witness: the count query raised and the run ended with its report
\* after writing two notes and skipping one
C26_Witness ==
    /\ CountFailed
    /\ pc = "done"
    /\ ~dry_run
    /\ stats.processed = 2
    /\ stats.skipped_empty + stats.skipped_too_long = 1
    /\ Count(log, LAMBDA e : IsUpdate(e) /\ e.res = "ok") = 2

\* the ids of the notes counted as processed: those with a confirmed update
\* in a real run, those a vector was returned for in a dry run
ProcessedIds ==
    IF dry_run THEN IdsWithVector
    ELSE {log[p].id : p \in {q \in 1..Len(log) : IsUpdate(log[q]) /\ log[q].res = "ok"}}

ErrorIds == {error_notes[j].id : j \in 1..Len(error_notes)}
TooLongIds == {skipped_notes[j].id : j \in 1..Len(skipped_notes)}
AcceptedIds == {valid_notes[j][1].id : j \in 1..Len(valid_notes)}
FetchedIds == {notes[j].id : j \in 1..Len(notes)}

\* the fetched notes that were neither accepted nor skipped as too long
EmptyIds == (FetchedIds \ AcceptedIds) \ TooLongIds

\* how many of the four outcomes the note id has
OutcomesOf(id) ==
    Cardinality({k \in 1..4 : id \in <<ProcessedIds, ErrorIds, TooLongIds, EmptyIds>>[k]})

\* C27 (conservation of outcomes): when the report is produced, total_found
\* is the number of fetched notes and equals processed + errors +
\* skipped_empty + skipped_too_long, on the single and the batch path and
\* whatever provider calls and store updates failed; every fetched note has
\* exactly one of the four outcomes, and each counter is the number of
\* notes with its outcome. Before the report the four counters never add up
\* to more than total_found.
C27_Conservation ==
    /\ stats.processed + stats.errors + stats.skipped_empty + stats.skipped_too_long
          <= stats.total_found
    /\ pc \in {"report", "done"} =>
          /\ stats.total_found = Len(notes)
          /\ stats.total_found = stats.processed + stats.errors
                                 + stats.skipped_empty + stats.skipped_too_long
          /\ Cardinality(FetchedIds) = Len(notes)
          /\ \A id \in FetchedIds : OutcomesOf(id) = 1
          /\ Cardinality(ProcessedIds) = stats.processed
          /\ Cardinality(ErrorIds) = stats.errors
          /\ Cardinality(TooLongIds) = stats.skipped_too_long
          /\ Cardinality(EmptyIds) = stats.skipped_empty

\* C27 witness: a real run on the batch path ended with one note written,
\* one in error and one skipped, after a provider call that failed
C27_Witness ==
    /\ pc = "done"
    /\ provider = "gemini"
    /\ ~dry_run
    /\ stats.total_found = 3
    /\ stats.processed = 1
    /\ stats.errors = 1
    /\ stats.skipped_empty + stats.skipped_too_long = 1
    /\ \E c \in 1..Len(Calls) : ~Calls[c].ok

\* the rows of the table with the id
RowsWithId(id) == {r \in DOMAIN rows : rows[r].id = id}

\* the ids of the notes whose generation failed for good
GenerationFailedIds ==
    {error_notes[j].id :
        j \in {k \in 1..Len(error_notes) :
                  error_notes[k].error # "Aggiornamento database fallito"}}

\* C28 (writes confined to successful candidates): every store update of a
\* run is for a note fetched in this run and accepted by the validation,
\* carries a vector the provider returned for that note, and is the only
\* update of the note; a step changes no column of the table but the
\* embedding, and an embedding only in a confirmed update, of the updated
\* note's row alone; the notes skipped, in error, or not fetched keep the
\* embedding they had, absent for every fetched one.
C28_WritesConfined ==
    /\ [][(log' # log /\ IsUpdate(Last(log'))) =>
             LET e == Last(log') IN
             /\ e.id \in FetchedIds
             /\ e.id \in AcceptedIds
             /\ e.vec # NoEmbedding
             /\ e.vec \in VectorsFor(e.id)
             /\ \A p \in 1..Len(log) : IsUpdate(log[p]) => log[p].id # e.id]_vars
    /\ [][rows' = rows]_vars
    /\ [][stored' # stored =>
             /\ log' # log
             /\ IsUpdate(Last(log'))
             /\ Last(log').res = "ok"
             /\ \A r \in DOMAIN stored :
                   stored'[r] # stored[r] =>
                      /\ r \in RowsWithId(Last(log').id)
                      /\ stored'[r] = Last(log').vec]_vars
    /\ [](\A id \in TooLongIds \cup ErrorIds :
             \A r \in RowsWithId(id) : stored[r] = NoEmbedding)
    /\ [](pc \in {"report", "done"} =>
             \A id \in EmptyIds : \A r \in RowsWithId(id) : stored[r] = NoEmbedding)

\* C28 witness: a real run ended with one note written, one skipped and
\* one whose generation failed, the last two with no embedding
C28_Witness ==
    /\ pc = "done"
    /\ ~dry_run
    /\ Count(log, IsUpdate) = 1
    /\ \E id \in ProcessedIds : \A r \in RowsWithId(id) : stored[r] # NoEmbedding
    /\ \E id \in TooLongIds \cup EmptyIds : \A r \in RowsWithId(id) : stored[r] = NoEmbedding
    /\ \E id \in GenerationFailedIds : \A r \in RowsWithId(id) : stored[r] = NoEmbedding

\* the store update of the note id has been attempted
UpdateAttempted(id) == \E p \in 1..Len(log) : IsUpdate(log[p]) /\ log[p].id = id

\* the vectors of the call are all persisted or were tried to be
CallPersisted(c) == \A m \in 1..c.returned : UpdateAttempted(c.ids[m])

\* the units with a generated vector whose update has not been attempted:
\* what an interrupt at this point would lose
UnitsInFlight ==
    {Calls[c].unit : c \in {k \in 1..Len(Calls) : Calls[k].ok /\ ~CallPersisted(Calls[k])}}

\* C29 (persist before the next dispatch): in a real run, when the provider
\* is first called for a unit (a note on the single path, a chunk on the
\* batch path), the store update of every vector returned for the earlier
\* units has been attempted; so at any point of the run, where an interrupt
\* may fall, the vectors not yet handed to the store belong to one unit at
\* most, and an embedding once written is never changed or removed by a
\* later step.
C29_PersistBeforeNextDispatch ==
    /\ [][(~dry_run /\ log' # log /\ IsCall(Last(log')) /\ Last(log').unit \notin Units) =>
             /\ \A c \in 1..Len(Calls) :
                   /\ Calls[c].unit < Last(log').unit
                   /\ Calls[c].ok => CallPersisted(Calls[c])
             /\ UnitsInFlight = {}]_vars
    /\ [](~dry_run => Cardinality(UnitsInFlight) <= 1)
    /\ [](~dry_run => \A u \in UnitsInFlight : u = Last(Calls).unit)
    /\ [][\A r \in DOMAIN stored : stored[r] # NoEmbedding => stored'[r] = stored[r]]_vars

\* C29 witness: a real run on the batch path in its second chunk, the two
\* updates of the first chunk attempted before the second chunk's call and
\* the second chunk's vector not yet handed to the store
C29_Witness ==
    /\ ~dry_run
    /\ provider = "gemini"
    /\ Cardinality(Units) = 2
    /\ Count(log, IsUpdate) = 2
    /\ Cardinality(UnitsInFlight) = 1
    /\ pc = "batch_update"

IsConfirmedUpdate(e) == IsUpdate(e) /\ e.res = "ok"

\* C30 (processed means written): in a real run processed is, at every
\* point and so at the report, the number of store updates that confirmed
\* a write; each of them is of a different note, whose row holds the vector
\* written; and no note counted as processed has an error summary.
C30_ProcessedMeansWritten ==
    ~dry_run =>
       /\ stats.processed = Count(log, IsConfirmedUpdate)
       /\ stats.processed = Cardinality(ProcessedIds)
       /\ ProcessedIds \cap ErrorIds = {}
       /\ \A p \in 1..Len(log) :
             IsConfirmedUpdate(log[p]) =>
                \A r \in RowsWithId(log[p].id) : stored[r] = log[p].vec

\* C30 witness: a real run at its report with two notes written and a third
\* whose update did not confirm the write
C30_Witness ==
    /\ ~dry_run
    /\ pc = "done"
    /\ stats.processed = 2
    /\ Count(log, IsConfirmedUpdate) = 2
    /\ Count(log, IsUpdate) = 3
    /\ stats.errors = 1

BatchReason == "Generazione embedding fallita nel batch"

\* the step appends a generation-failure summary
RecordsBatchFailure ==
    /\ Len(error_notes') = Len(error_notes) + 1
    /\ Last(error_notes').error = BatchReason

\* C31 (a successful batch call fails nobody), as claimed: after a batch
\* call that returned, the handling of a member of the chunk never records
\* a generation failure, also when the returned list is shorter than the
\* chunk and when two members have the same id.
C31_SuccessfulCallFailsNobody ==
    [][(pc = "batch_update" /\ Last(Calls).ok) => ~RecordsBatchFailure]_vars

\* C31, amended: after a batch call that returned r vectors, a member whose
\* id is the id of one of the first r members is never recorded as a
\* generation failure and goes to the persistence step; a member whose id
\* is the id of none of them (a member beyond a short list) gets one
\* summary with the batch reason, adds one to errors and is not updated.
\* When the list has a vector for every member, no member is failed, two
\* members with the same id included.
C31_PairedMembersProceed ==
    [][(pc = "batch_update" /\ Last(Calls).ok) =>
          LET chunk == BatchNotes
              id == chunk[member][1].id
              call == Last(Calls)
              paired == \E j \in 1..call.returned : chunk[j][1].id = id
          IN  /\ call.returned = Len(chunk) => paired
              /\ IF paired
                 THEN /\ ~RecordsBatchFailure
                      /\ stats'.processed + stats'.errors
                            = stats.processed + stats.errors + 1
                      /\ ~dry_run => (log' # log /\ IsUpdate(Last(log'))
                                      /\ Last(log').id = id)
                 ELSE /\ RecordsBatchFailure
                      /\ Last(error_notes').id = id
                      /\ stats' = [stats EXCEPT !.errors = @ + 1]
                      /\ log' = log
                      /\ stored' = stored]_vars

\* C31 witness: a real run in which a batch call returned one vector less
\* than the chunk has members: the last member has the batch reason in the
\* error list and no update, the first was updated
C31_Witness ==
    /\ pc = "done"
    /\ ~dry_run
    /\ \E c \in 1..Len(Calls) :
          /\ Calls[c].ok
          /\ Len(Calls[c].ids) = 2
          /\ Calls[c].returned = 1
          /\ Calls[c].ids[1] # Calls[c].ids[2]
          /\ UpdateAttempted(Calls[c].ids[1])
          /\ ~UpdateAttempted(Calls[c].ids[2])
          /\ \E j \in 1..Len(error_notes) :
                /\ error_notes[j].id = Calls[c].ids[2]
                /\ error_notes[j].error = BatchReason

\* the rows that are pending and whose text the validation accepts
AcceptablePending ==
    {r \in DOMAIN rows :
        /\ rows[r].status = "completed"
        /\ stored[r] = NoEmbedding
        /\ Classify(build_text_for_embedding(Selected(rows[r]))) = "accepted"}

\* the acceptable pending rows this run did not fetch
LeftUnfetched == {r \in AcceptablePending : rows[r].id \notin FetchedIds}

\* C32 (progress across runs): a real run in which no provider call and no
\* store update failed, and that ends while an acceptable record is still
\* pending beyond what it fetched, has written an embedding. Such a run
\* leaves fewer pending records to the next one, so that repeated runs get
\* to every acceptable record; a run that ends with an acceptable record
\* unfetched and nothing written leaves the table as it found it, and every
\* later run fetches the same always-skipped records again.
C32_ProgressAcrossRuns ==
    (/\ pc = "done"
     /\ ~dry_run
     /\ stats.errors = 0
     /\ \A c \in 1..Len(Calls) : Calls[c].ok
     /\ LeftUnfetched # {}) =>
        stats.processed >= 1

\* the run after a run that wrote nothing fetches the same notes again
C32_SameFetchAgain ==
    [][(pc = "fetch" /\ pc' = "count" /\ log # <<>> /\ IsRerun(log[1])
        /\ log[1].stats.processed = 0) =>
          /\ Len(notes') = log[1].stats.total_found
          /\ \A j \in 1..Len(notes') : notes'[j].id = j]_vars

\* the units of a run over the accepted candidates: one per note on the
\* single path, one per chunk on the batch path
UnitsOfRun == IF SupportsBatch THEN CeilDiv(M, GEMINI_BATCH_SIZE) ELSE M

\* the provider invocations of unit u so far
InvocationsOf(u) == Count(log, LAMBDA e : IsCall(e) /\ e.unit = u)

\* the events a run over N fetched notes can log: the fetch, the count and
\* the report, and for each of at most N units its calls, the sleeps between
\* them, its update and the delay after it
EventBound(N) == 3 + N * (2 * MAX_RETRIES + 1)

\* C33 (bounded work and termination): a run over N fetched notes, M of
\* them accepted, invokes the provider at most MAX_RETRIES times for each
\* unit, so at most MAX_RETRIES * M times on the single path and
\* MAX_RETRIES * ceil(M / C) times on the batch path, issues at most M
\* store updates, and logs a bounded number of events; and it always gets
\* to the final report: until then a step is always possible (in the
\* validation loop, a note is left to classify), each step is a step
\* forward, and the run is over once the report is printed.
C33_BoundedWork ==
    /\ [](M <= Len(notes))
    /\ [][(log' # log /\ IsCall(Last(log'))) =>
             InvocationsOf(Last(log').unit) + 1 <= MAX_RETRIES]_vars
    /\ [](Cardinality(Units) <= UnitsOfRun)
    /\ [](Len(Calls) <= MAX_RETRIES * UnitsOfRun)
    /\ [](Count(log, IsUpdate) <= M)
    /\ [](Len(log) <= EventBound(Len(notes)))
    /\ [](pc \in {"single_call", "single_backoff", "single_update", "single_delay",
                  "batch_call", "batch_backoff", "batch_update", "batch_delay",
                  "count", "report"} => ENABLED Next)
    /\ [](pc = "validate" => vpos <= Len(notes))
    /\ [][pc \notin {"done", "exited"} /\ Progress' > Progress]_vars
    /\ [](Progress <= 3 + EventBound(Len(rows)) + 3 * Len(rows))
    /\ [](pc = "done" => ~ENABLED Next)

\* C33 witness: a run on the single path ended with its report after three
\* units, one of them invoked MAX_RETRIES times, and two store updates
C33_Witness ==
    /\ pc = "done"
    /\ ~SupportsBatch
    /\ ~dry_run
    /\ M = 3
    /\ \E u \in Units : InvocationsOf(u) = MAX_RETRIES
    /\ Len(Calls) >= MAX_RETRIES + 2
    /\ Count(log, IsUpdate) = 2

\* every provider call of the run returned, with one vector for each text
ProviderNeverFails ==
    \A j \in 1..Len(Calls) : Calls[j].ok /\ Calls[j].returned = Len(Calls[j].texts)

\* every vector handed to the store is the provider's vector for the text
\* of the note it is for
SameVectorForSameText ==
    \A j \in 1..Len(Updates) :
       Updates[j].vec = Vector(build_text_for_embedding(NoteWithId(Updates[j].id)),
                               EXPECTED_VECTOR_DIMENSION)

\* the store's behaviour in the run: whether its k-th update was confirmed
StoreBehaviour == [k \in 1..Len(Updates) |-> Updates[k].res = "ok"]

\* the fetched notes the validation accepts, in order
Candidates(fetched) ==
    SelectSeq(fetched, LAMBDA n : Classify(build_text_for_embedding(n)) = "accepted")

\* what a run ends with, as a function of the fetched notes, the mode and the
\* store's behaviour alone, the path taken not being an argument: the k-th
\* candidate is persisted with the vector of its text when the k-th update is
\* confirmed and is an update error otherwise
ResultOf(fetched, dry, confirmed) ==
    LET c == Candidates(fetched)
        Good(k) == dry \/ confirmed[k]
        failed == SelectSeq([k \in 1..Len(c) |-> k], LAMBDA k : ~Good(k))
    IN  [persisted |-> IF dry THEN {}
                       ELSE {<<c[k].id, Vector(build_text_for_embedding(c[k]),
                                               EXPECTED_VECTOR_DIMENSION)>> :
                               k \in {k2 \in 1..Len(c) : confirmed[k2]}},
         processed |-> Len(c) - Len(failed),
         errors |-> Len(failed),
         skipped_empty |->
             Count(fetched, LAMBDA n : Classify(build_text_for_embedding(n)) = "empty"),
         skipped_too_long |->
             Count(fetched, LAMBDA n : Classify(build_text_for_embedding(n)) = "too_long"),
         error_notes |-> [j \in 1..Len(failed) |->
                             ErrorNote(c[failed[j]], "Aggiornamento database fallito")]]

\* what the run has persisted and counted
RunResult ==
    [persisted |-> {<<rows[r].id, stored[r]>> :
                      r \in {r2 \in DOMAIN stored : /\ rows[r2].id \in FetchedIds
                                                    /\ stored[r2] # NoEmbedding}},
     processed |-> stats.processed,
     errors |-> stats.errors,
     skipped_empty |-> stats.skipped_empty,
     skipped_too_long |-> stats.skipped_too_long,
     error_notes |-> error_notes]

\* C34 (single-call and batch paths agree): a run whose provider never
\* failed and returned the vector of each text ends, on either path, with
\* the persisted (note, vector) pairs, the processed, errors, skipped_empty
\* and skipped_too_long counters and the error list that the fetched notes,
\* the mode and the store's behaviour determine, whatever the path; the two
\* paths differ in api_calls and in the number of delays only, one call per
\* note and a delay between two notes on the single path, one call per chunk
\* and a delay between two chunks on the batch path.
C34_PathsAgree ==
    (pc = "done" /\ ProviderNeverFails /\ SameVectorForSameText) =>
        /\ ~dry_run => Len(Updates) = Len(Candidates(notes))
        /\ RunResult = ResultOf(notes, dry_run, StoreBehaviour)
        /\ stats.api_calls = UnitsOfRun
        /\ Count(log, IsDelay) = IF M = 0 THEN 0 ELSE UnitsOfRun - 1

\* C34 witness: a real run on the batch path ended after two chunks of
\* three candidates, all vectors returned, one update refused by the store
\* and two confirmed
C34_Witness ==
    /\ pc = "done"
    /\ SupportsBatch
    /\ ~dry_run
    /\ ProviderNeverFails
    /\ SameVectorForSameText
    /\ stats.api_calls = 2
    /\ Len(Candidates(notes)) = 3
    /\ Len(error_notes) = 1
    /\ Cardinality(RunResult.persisted) = 2

\* the three failure reasons of an error summary
GenerationFailed == "Generazione embedding fallita"
GenerationFailedInBatch == "Generazione embedding fallita nel batch"
UpdateFailed == "Aggiornamento database fallito"
ErrorReasons == {GenerationFailed, GenerationFailedInBatch, UpdateFailed}

\* e has the three keys of an error summary: the id of an accepted note,
\* its display title and a failure reason
IsErrorSummary(e) ==
    /\ DOMAIN e = {"id", "title", "error"}
    /\ e.id \in AcceptedIds
    /\ e.title = DisplayTitle(NoteWithId(e.id))
    /\ e.error \in ErrorReasons

\* the note whose handling the next step of the processing loop belongs to
NoteInHand ==
    IF pc \in {"single_call", "single_update"} THEN valid_notes[index][1]
    ELSE BatchNotes[member][1]

\* the reason a failure recorded by the next step carries: on the single
\* path the wrapper gave up or the update failed; on the batch path the
\* member has no vector or its update failed
ReasonInHand ==
    CASE pc = "single_call" -> GenerationFailed
      [] pc = "single_update" -> UpdateFailed
      [] pc = "batch_update" ->
            IF DictGet(embeddings, NoteInHand.id) = NoEmbedding
            THEN GenerationFailedInBatch ELSE UpdateFailed
      [] OTHER -> "none"

\* C35 (error list matches the error counter): whenever the handling of a
\* note is complete, and at the report, the error list has as many entries
\* as the errors counter counts; the counter and the list change together
\* only, by one failure appended at the end of the list for the note in
\* hand, so the entries stay in the order the failures were recorded; each
\* entry has the note's id, its display title and one of the three failure
\* reasons, the one of the failure that happened.
C35_ErrorListMatchesCounter ==
    /\ [](Len(error_notes) = stats.errors)
    /\ [](\A j \in 1..Len(error_notes) : IsErrorSummary(error_notes[j]))
    /\ [][(stats'.errors # stats.errors \/ error_notes' # error_notes) =>
             /\ pc \in {"single_call", "single_update", "batch_update"}
             /\ stats'.errors = stats.errors + 1
             /\ error_notes' = Append(error_notes,
                                      [id |-> NoteInHand.id,
                                       title |-> DisplayTitle(NoteInHand),
                                       error |-> ReasonInHand])
             /\ ReasonInHand = UpdateFailed =>
                   /\ log' # log
                   /\ IsUpdate(Last(log'))
                   /\ Last(log').id = NoteInHand.id
                   /\ Last(log').res # "ok"]_vars
    /\ [][(log' # log /\ IsUpdate(Last(log')) /\ Last(log').res # "ok") =>
             Len(error_notes') = Len(error_notes) + 1]_vars
    /\ [](pc \in {"report", "done"} =>
             /\ Len(error_notes) = stats.errors
             /\ Cardinality(ErrorIds) = stats.errors)

\* C35 witness: a run ended with two failures of different reasons in its
\* error list, counted as two errors, one of a note without a title
C35_Witness ==
    /\ pc = "done"
    /\ stats.errors = 2
    /\ Len(error_notes) = 2
    /\ error_notes[1].error # error_notes[2].error
    /\ \E j \in 1..2 : error_notes[j].title = Lit("Senza titolo")
    /\ \E j \in 1..2 : error_notes[j].title # Lit("Senza titolo")

====
